---- MODULE Spec2Model ----
(***************************************************************************)
(* A model of the boxworld voxel engine: chunk storage and face-culled     *)
(* meshing (js/chunk.js), terrain generation (js/terrain.js), the chunk    *)
(* registry and streaming (js/world.js), the seeded permutation table of   *)
(* the noise field (noise.js) and the player's physics, raycast and edit   *)
(* actions (js/player.js).                                                 *)
(*                                                                         *)
(* Numbers.  World and voxel coordinates are integers.  The player's       *)
(* position is kept in millionths of a block (POS), velocities in          *)
(* thousandths of a block per second and tick durations in milliseconds,   *)
(* so that pos += vel * dt is exact integer arithmetic; the rounding of    *)
(* IEEE doubles is not modelled.                                           *)
(***************************************************************************)
EXTENDS Integers, Sequences, FiniteSets, TLC

VARIABLES chunks, scene, lastPC, player, camera, noise, probe, hist

vars == <<chunks, scene, lastPC, player, camera, noise, probe, hist>>

\* this.mesh = null: a chunk's mesh fields hold a mesh object, which has a
\* non-empty id, or this record
NoMesh == [id |-> <<>>, faces |-> {}]

---------------------------------------------------------------------------
(* js/chunk.js: sizes and block codes                                      *)

CHUNK_SIZE == 16
CHUNK_HEIGHT == 64

AIR == 0
GRASS == 1
DIRT == 2
STONE == 3
WOOD == 4
LEAVES == 5
SAND == 6
WATER == 7

BLOCKS == {AIR, GRASS, DIRT, STONE, WOOD, LEAVES, SAND, WATER}

\* what Chunk.getBlock returns for a local coordinate out of range
UNKNOWN == -1

TRANSPARENT == {AIR, WATER}

\* FACES, in the order buildMesh visits them; a face is named by its index
FACES == <<
    [dir |-> << 0,  1,  0>>, face |-> "top"],
    [dir |-> << 0, -1,  0>>, face |-> "bottom"],
    [dir |-> <<-1,  0,  0>>, face |-> "sideX"],
    [dir |-> << 1,  0,  0>>, face |-> "sideX"],
    [dir |-> << 0,  0, -1>>, face |-> "sideZ"],
    [dir |-> << 0,  0,  1>>, face |-> "sideZ"] >>

FaceIds == 1..Len(FACES)

---------------------------------------------------------------------------
(* JavaScript arithmetic                                                   *)

Max(a, b) == IF a >= b THEN a ELSE b
Min(a, b) == IF a <= b THEN a ELSE b
Abs(a) == IF a >= 0 THEN a ELSE -a

\* JavaScript's remainder a % b for b > 0: the sign follows the dividend
JsRem(a, b) == IF a >= 0 THEN a % b ELSE -((-a) % b)

\* Math.floor(a / b) for integers a and b > 0
FloorDiv(a, b) == a \div b

\* the chunk coordinate of a world coordinate: Math.floor(w / CHUNK_SIZE)
ChunkOf(w) == FloorDiv(w, CHUNK_SIZE)

\* the local coordinate as a plain remainder, without the re-normalisation
LocalOfNoWrap(w) == JsRem(w, CHUNK_SIZE)

\* the local coordinate: ((w % CHUNK_SIZE) + CHUNK_SIZE) % CHUNK_SIZE
LocalOf(w) == JsRem(JsRem(w, CHUNK_SIZE) + CHUNK_SIZE, CHUNK_SIZE)

---------------------------------------------------------------------------
(* noise.js, as terrain.js uses it.  The terrain reads the noise field only *)
(* through octaves(), whose result is a double in [-1, 1] fixed by the     *)
(* seed and the column.  The gradient arithmetic is not reproduced: the    *)
(* field is a fixed integer-valued stand-in, in hundredths, with the same  *)
(* range and the same dependence on the column alone.                      *)

\* a triangle wave through -100..100
NoiseWave(t) == Abs(((t + 100) % 400) - 200) - 100

\* noise.octaves(wx, wz, 4, 0.5, 0.004), in hundredths
OctavesBase(wx, wz) == NoiseWave(3 * wx + 9 * wz + 12)

\* noise.octaves(wx, wz, 2, 0.5, 0.02), in hundredths
OctavesDetail(wx, wz) == NoiseWave(37 * wx + 91 * wz + 40)

---------------------------------------------------------------------------
(* js/terrain.js                                                           *)

SEA_LEVEL == 12
STONE_DEPTH == 4
TRUNK_HEIGHT == 4

\* treeAt: a fixed hash of the column, true for about 8% of the columns
\* (the sine hash is replaced by an integer hash of the same density)
treeAt(wx, wz) == ((wx * 127 + wz * 311) % 100) >= 92

\* a clamp from above only
ClampHeightUpper(height100) == Min(FloorDiv(height100, 100), CHUNK_HEIGHT - 10)

\* the clamp of getTerrainHeight, on height given in hundredths
ClampHeight(height100) ==
    Max(1, Min(FloorDiv(height100, 100), CHUNK_HEIGHT - 10))

\* getTerrainHeight for the two values octaves() returned, in hundredths
HeightOf(base, detail) ==
    ClampHeight(SEA_LEVEL * 100 + base * 20 + detail * 5)

getTerrainHeight(wx, wz) ==
    HeightOf(OctavesBase(wx, wz), OctavesDetail(wx, wz))

\* a first pass that stores the column's height in its solid voxels
TerrainPassHeight(terrainH, y) == IF y <= terrainH THEN terrainH ELSE AIR

\* a first pass that leaves the columns below sea level dry
TerrainPassDry(terrainH, y) ==
    IF y = 0 THEN STONE
    ELSE IF y < terrainH - STONE_DEPTH THEN STONE
    ELSE IF y < terrainH THEN DIRT
    ELSE IF y = terrainH
         THEN (IF terrainH <= SEA_LEVEL + 1 THEN SAND ELSE GRASS)
    ELSE AIR

\* first pass of generateChunk: the block of a column of height terrainH at y
TerrainPass(terrainH, y) ==
    IF y = 0 THEN STONE
    ELSE IF y < terrainH - STONE_DEPTH THEN STONE
    ELSE IF y < terrainH THEN DIRT
    ELSE IF y = terrainH
         THEN (IF terrainH <= SEA_LEVEL + 1 THEN SAND ELSE GRASS)
    ELSE IF y <= SEA_LEVEL THEN WATER
    ELSE AIR

\* second pass: local column (tx, tz) of chunk (cx, cz) gets a tree
TreeColumn(cx, cz, tx, tz) ==
    /\ treeAt(cx * CHUNK_SIZE + tx, cz * CHUNK_SIZE + tz)
    /\ getTerrainHeight(cx * CHUNK_SIZE + tx, cz * CHUNK_SIZE + tz)
         > SEA_LEVEL + 2

\* placeTree(chunk, tx, ty, tz) writes local (x, y, z)
TreeWrites(tx, ty, tz, x, y, z) ==
    LET top == ty + TRUNK_HEIGHT
    IN  \/ x = tx /\ z = tz /\ y \in ty..(ty + TRUNK_HEIGHT - 1)
        \/ /\ y - top \in -1..1
           /\ x - tx \in -2..2
           /\ z - tz \in -2..2
           /\ ~(Abs(x - tx) = 2 /\ Abs(z - tz) = 2)
        \/ x = tx /\ z = tz /\ y = top + 2

\* placeTree(chunk, tx, ty, tz): what its writes leave at a local (x, y, z)
\* it writes.  The canopy and the cap are written after the trunk, so the
\* trunk's block under the canopy ends as LEAVES.
placeTree(tx, ty, tz, x, y, z) ==
    IF x = tx /\ z = tz /\ y < ty + TRUNK_HEIGHT - 1 THEN WOOD ELSE LEAVES

\* generateChunk: the block it leaves at local (x, y, z) of chunk (cx, cz),
\* for x, y, z in range.  Trees are placed in the order of the z, x loops and
\* the last tree that writes a voxel decides it.  A tree stands on a column
\* higher than SEA_LEVEL + 2 and writes above it, so only a voxel above
\* SEA_LEVEL + 3 is looked up in the trees around it.
generateChunk(cx, cz, x, y, z) ==
    LET H(lx, lz) == getTerrainHeight(cx * CHUNK_SIZE + lx, cz * CHUNK_SIZE + lz)
        lo(a) == Max(0, a - 2)
        hi(a) == Min(CHUNK_SIZE - 1, a + 2)
        near == IF y <= SEA_LEVEL + 3 THEN {}
                ELSE { t \in (lo(x)..hi(x)) \X (lo(z)..hi(z)) :
                         /\ TreeColumn(cx, cz, t[1], t[2])
                         /\ TreeWrites(t[1], H(t[1], t[2]) + 1, t[2], x, y, z) }
        ord(t) == t[2] * CHUNK_SIZE + t[1]
    IN  IF near = {}
        THEN TerrainPass(H(x, z), y)
        ELSE LET last == CHOOSE t \in near : \A u \in near : ord(u) <= ord(t)
             IN  placeTree(last[1], H(last[1], last[2]) + 1, last[2], x, y, z)

---------------------------------------------------------------------------
(* js/chunk.js: the voxel store                                            *)
(*                                                                         *)
(* A chunk's data array is kept as the pair (filled, set): filled says     *)
(* whether generateChunk has written the array (a new Uint8Array is all    *)
(* AIR), and set maps the local coordinates whose block differs from that  *)
(* base to their block.                                                    *)

InRange(x, y, z) ==
    /\ x >= 0 /\ x < CHUNK_SIZE
    /\ y >= 0 /\ y < CHUNK_HEIGHT
    /\ z >= 0 /\ z < CHUNK_SIZE

\* the data array before any later write
BaseBlock(ch, x, y, z) ==
    IF ch.filled THEN generateChunk(ch.cx, ch.cz, x, y, z) ELSE AIR

\* this.data[this.index(x, y, z)], for x, y, z in range
DataAt(ch, x, y, z) ==
    IF <<x, y, z>> \in DOMAIN ch.set THEN ch.set[<<x, y, z>>]
    ELSE BaseBlock(ch, x, y, z)

\* Chunk.getBlock
Chunk_getBlock(ch, x, y, z) ==
    IF ~InRange(x, y, z) THEN UNKNOWN ELSE DataAt(ch, x, y, z)

\* Chunk.setBlock: the chunk after the write (a no-op out of range)
Chunk_setBlock(ch, x, y, z, type) ==
    IF ~InRange(x, y, z) THEN ch
    ELSE IF type = BaseBlock(ch, x, y, z)
    THEN [ch EXCEPT !.set =
            [v \in DOMAIN ch.set \ {<<x, y, z>>} |-> ch.set[v]]]
    ELSE [ch EXCEPT !.set =
            [v \in DOMAIN ch.set \cup {<<x, y, z>>} |->
                IF v = <<x, y, z>> THEN type ELSE ch.set[v]]]

\* new Chunk(cx, cz)
NewChunk(cx, cz) ==
    [cx |-> cx, cz |-> cz, filled |-> FALSE, set |-> [v \in {} |-> AIR],
     mesh |-> NoMesh, waterMesh |-> NoMesh]

---------------------------------------------------------------------------
(* js/world.js: the registry.  A world value W is the record               *)
(* [chunks, scene]: the chunk map and the meshes added to the scene.       *)

RENDER_DISTANCE == 4

\* chunkKey: the string `${cx},${cz}`, which names the pair one-to-one
chunkKey(cx, cz) == <<cx, cz>>

HasChunk(W, cx, cz) == chunkKey(cx, cz) \in DOMAIN W.chunks

\* a getBlockWorld that answers with the chunk's sentinel where no chunk is
\* loaded
getBlockWorldUnknown(W, wx, wy, wz) ==
    IF ~HasChunk(W, ChunkOf(wx), ChunkOf(wz)) THEN UNKNOWN
    ELSE Chunk_getBlock(W.chunks[chunkKey(ChunkOf(wx), ChunkOf(wz))],
                        LocalOf(wx), wy, LocalOf(wz))

\* getBlockWorld
getBlockWorld(W, wx, wy, wz) ==
    LET cx == ChunkOf(wx)
        cz == ChunkOf(wz)
    IN  IF ~HasChunk(W, cx, cz) THEN AIR
        ELSE Chunk_getBlock(W.chunks[chunkKey(cx, cz)],
                            LocalOf(wx), wy, LocalOf(wz))

---------------------------------------------------------------------------
(* js/chunk.js: buildMesh and disposeMesh                                  *)
(*                                                                         *)
(* A mesh object is [id, faces].  Its id stands for the object's identity: *)
(* <<cx, cz, kind, n>>, with n the least number no live object of that     *)
(* chunk coordinate and kind carries.  faces holds the emitted faces       *)
(* <<x, y, z, f>> (local voxel, index in FACES) of the voxels the model    *)
(* records: those of MeshWindow and those written since generation.        *)

\* the world voxels whose faces the model records in every mesh
MeshWindow ==
    ({-1, 0} \X {SEA_LEVEL, SEA_LEVEL + 1} \X {-1, 0})
      \cup ({-1, 0} \X {SEA_LEVEL} \X {5})
      \cup ({-1, 0} \X {0} \X {0}) \cup {<<0, CHUNK_HEIGHT - 1, 0>>}

LocalWindow(ch) ==
    { <<LocalOf(v[1]), v[2], LocalOf(v[3])>> :
        v \in { u \in MeshWindow :
                  ChunkOf(u[1]) = ch.cx /\ ChunkOf(u[3]) = ch.cz } }

\* the block next to local (x, y, z) through face f, as buildMesh resolves it
NeighborBlock(W, ch, x, y, z, f) ==
    LET nx == x + FACES[f].dir[1]
        ny == y + FACES[f].dir[2]
        nz == z + FACES[f].dir[3]
    IN  IF nx < 0 \/ nx >= CHUNK_SIZE \/ nz < 0 \/ nz >= CHUNK_SIZE
        THEN getBlockWorld(W, ch.cx * CHUNK_SIZE + nx, ny,
                              ch.cz * CHUNK_SIZE + nz)
        ELSE Chunk_getBlock(ch, nx, ny, nz)

\* a rule that culls an opaque block's face toward the sentinel
FaceShownKnownOnly(block, neighbor) ==
    IF block = WATER THEN neighbor = AIR ELSE neighbor \in TRANSPARENT

\* a rule that treats WATER like any other block
FaceShownAlike(block, neighbor) ==
    ~(neighbor \notin TRANSPARENT /\ neighbor # UNKNOWN)

\* the face-emission rule of buildMesh for a non-AIR block
FaceShown(block, neighbor) ==
    IF block = WATER THEN neighbor = AIR
    ELSE ~(neighbor \notin TRANSPARENT /\ neighbor # UNKNOWN)

\* buildMesh emits face f of local voxel (x, y, z)
EmitsFace(W, ch, x, y, z, f) ==
    LET block == Chunk_getBlock(ch, x, y, z)
    IN  /\ block # AIR
        /\ FaceShown(block, NeighborBlock(W, ch, x, y, z, f))

\* the voxels of ch next to a written voxel of ch or of a loaded chunk
NextToWritten(W, ch) ==
    LET own == { <<v[1] + FACES[f].dir[1], v[2] + FACES[f].dir[2],
                   v[3] + FACES[f].dir[3]>> :
                   v \in DOMAIN ch.set, f \in FaceIds }
        across(k) ==
            { <<(k[1] - ch.cx) * CHUNK_SIZE + v[1] + FACES[f].dir[1],
                v[2] + FACES[f].dir[2],
                (k[2] - ch.cz) * CHUNK_SIZE + v[3] + FACES[f].dir[3]>> :
                v \in DOMAIN W.chunks[k].set, f \in FaceIds }
        nbrs == { chunkKey(ch.cx - 1, ch.cz), chunkKey(ch.cx + 1, ch.cz),
                  chunkKey(ch.cx, ch.cz - 1), chunkKey(ch.cx, ch.cz + 1) }
                  \cap DOMAIN W.chunks
    IN  { v \in own \cup UNION { across(k) : k \in nbrs } :
            InRange(v[1], v[2], v[3]) }

\* the columns of chunk (cx, cz) whose generated terrain lies below sea level
SeaColumnsOf(cx, cz) ==
    { c \in (0..(CHUNK_SIZE - 1)) \X (0..(CHUNK_SIZE - 1)) :
        getTerrainHeight(cx * CHUNK_SIZE + c[1], cz * CHUNK_SIZE + c[2])
          < SEA_LEVEL }

\* SeaColumnsOf, tabulated once for the chunk coordinates around the origin
SeaSpan == 8
SeaColumns ==
    LET tab == [k \in (-SeaSpan..SeaSpan) \X (-SeaSpan..SeaSpan) |->
                  SeaColumnsOf(k[1], k[2])]
    IN  tab @@ <<>>

\* vertCount > 0 (water = FALSE) and wVertCount > 0 (water = TRUE) at the end
\* of buildMesh's loops.  Apart from the recorded voxels, a face can only come
\* from a voxel next to a written one or, in generated terrain, from a voxel
\* whose column also shows a face in the bedrock layer (opaque) or in the sea
\* level layer (water); so those are the voxels searched.
HasFaces(W, ch, recorded, water) ==
    LET shows(v) == /\ (Chunk_getBlock(ch, v[1], v[2], v[3]) = WATER) = water
                    /\ \E f \in FaceIds : EmitsFace(W, ch, v[1], v[2], v[3], f)
        key == chunkKey(ch.cx, ch.cz)
        sea == IF key \in DOMAIN SeaColumns THEN SeaColumns[key]
               ELSE SeaColumnsOf(ch.cx, ch.cz)
    IN  \/ recorded # {}
        \/ \E v \in NextToWritten(W, ch) : shows(v)
        \/ /\ ch.filled
           /\ IF water
              THEN \E c \in sea : shows(<<c[1], SEA_LEVEL, c[2]>>)
              ELSE \E x \in 0..(CHUNK_SIZE - 1), z \in 0..(CHUNK_SIZE - 1) :
                     shows(<<x, 0, z>>)

\* the least n for which <<cx, cz, kind, n>> names no live mesh object
\* among the live objects of that coordinate
FreshMeshId(live, cx, cz, kind) ==
    LET taken == { id[4] : id \in { i \in live : i[3] = kind } }
        n == CHOOSE m \in 1..(Cardinality(taken) + 1) :
                /\ m \notin taken
                /\ \A l \in 1..(m - 1) : l \in taken
    IN  <<cx, cz, kind, n>>

\* the ids of the mesh objects the chunks hold
HeldMeshes(chs) ==
    UNION { {chs[k].mesh.id, chs[k].waterMesh.id} : k \in DOMAIN chs } \ {<<>>}

\* the mesh objects of chunk coordinate (cx, cz) among those of sc
LiveMeshes(sc, cx, cz) == { i \in sc : i[1] = cx /\ i[2] = cz }

\* a buildMesh that drops its reference to the old meshes without removing
\* them from the scene
RemoveMeshesLeak(sc, ch) == sc

\* chunk.buildMesh(scene, (wx, wy, wz) => this.getBlockWorld(wx, wy, wz)) for
\* the chunk stored under key: the world after it
\* the first lines of buildMesh, and disposeMesh: the scene without the
\* chunk's two meshes
RemoveMeshes(sc, ch) == sc \ {ch.mesh.id, ch.waterMesh.id}

\* the faces buildMesh emits into the water mesh (water = TRUE) or the opaque
\* mesh, among the voxels whose faces are recorded
ShownFaces(W, ch, water) ==
    { <<s[1][1], s[1][2], s[1][3], s[2]>> :
        s \in { t \in (LocalWindow(ch) \cup DOMAIN ch.set) \X FaceIds :
                  /\ (Chunk_getBlock(ch, t[1][1], t[1][2], t[1][3]) = WATER)
                       = water
                  /\ EmitsFace(W, ch, t[1][1], t[1][2], t[1][3], t[2]) } }

\* a build that makes a mesh only where the chunk held none
MeshOfOnce(W, ch, live, faces, water) ==
    IF (IF water THEN ch.waterMesh ELSE ch.mesh) # NoMesh THEN NoMesh
    ELSE [id |-> FreshMeshId(live, ch.cx, ch.cz,
                             IF water THEN "water" ELSE "opaque"),
          faces |-> faces]

\* the mesh object buildMesh creates for faces, if there are vertices
MeshOf(W, ch, live, faces, water) ==
    IF HasFaces(W, ch, faces, water)
    THEN [id |-> FreshMeshId(live, ch.cx, ch.cz,
                             IF water THEN "water" ELSE "opaque"),
          faces |-> faces]
    ELSE NoMesh

\* the end of buildMesh: the chunk holds the new meshes and the scene has them
WithMeshes(W, key, scene1, mesh, waterMesh) ==
    [chunks |-> [W.chunks EXCEPT ![key].mesh = mesh,
                                 ![key].waterMesh = waterMesh],
     scene  |-> scene1 \cup ({mesh.id, waterMesh.id} \ {<<>>})]

\* buildMesh after the old meshes were removed, leaving scene1
BuildInto(W, key, ch, scene1) ==
    WithMeshes(W, key, scene1,
               MeshOf(W, ch, LiveMeshes(scene1, ch.cx, ch.cz),
                      ShownFaces(W, ch, FALSE), FALSE),
               MeshOf(W, ch, LiveMeshes(scene1, ch.cx, ch.cz),
                      ShownFaces(W, ch, TRUE), TRUE))

\* chunk.buildMesh(scene, (wx, wy, wz) => this.getBlockWorld(wx, wy, wz)) for
\* the chunk stored under key: the world after it
buildMesh(W, key) ==
    BuildInto(W, key, W.chunks[key], RemoveMeshes(W.scene, W.chunks[key]))

---------------------------------------------------------------------------
(* js/world.js: load, unload, streaming and edits                          *)

\* one block, in the unit of the player's position (millionths)
POS == 1000 * 1000

\* a loadChunk without the test for an entry that is already there
loadChunkAlways(W, cx, cz) ==
    buildMesh([W EXCEPT !.chunks =
                 (chunkKey(cx, cz) :> [NewChunk(cx, cz) EXCEPT !.filled = TRUE])
                   @@ W.chunks],
              chunkKey(cx, cz))

\* loadChunk
loadChunk(W, cx, cz) ==
    LET key == chunkKey(cx, cz)
        chunk == [NewChunk(cx, cz) EXCEPT !.filled = TRUE]
    IN  IF key \in DOMAIN W.chunks THEN W
        ELSE buildMesh([W EXCEPT !.chunks = (key :> chunk) @@ W.chunks], key)

\* Map.delete: the map without the entry of key (@@ <<>> changes nothing and
\* has the result stored as an explicit table)
Without(map, key) == [k \in DOMAIN map \ {key} |-> map[k]] @@ <<>>

\* an unloadChunk that disposes the meshes and keeps the entry
unloadChunkKeepEntry(W, cx, cz) ==
    IF chunkKey(cx, cz) \notin DOMAIN W.chunks THEN W
    ELSE [chunks |-> [W.chunks EXCEPT ![chunkKey(cx, cz)].mesh = NoMesh,
                                      ![chunkKey(cx, cz)].waterMesh = NoMesh],
          scene  |-> RemoveMeshes(W.scene, W.chunks[chunkKey(cx, cz)])]

\* unloadChunk
unloadChunk(W, cx, cz) ==
    LET key == chunkKey(cx, cz)
    IN  IF key \notin DOMAIN W.chunks THEN W
        ELSE [chunks |-> Without(W.chunks, key),
              scene  |-> RemoveMeshes(W.scene, W.chunks[key])]

\* load loops whose dx runs from -RENDER_DISTANCE + 1
ScanKeyShifted(pcx, pcz, dx, dz) == chunkKey(pcx + dx + 1, pcz + dz)

\* the chunk coordinate the load loops of update pass to loadChunk
ScanKey(pcx, pcz, dx, dz) == chunkKey(pcx + dx, pcz + dz)

\* the least element of a non-empty set of integers
Least(S) == CHOOSE i \in S : \A l \in S : i <= l
LeastOrZero(S) == IF S = {} THEN 0 ELSE Least(S)

\* the element of a set of one element.  In  Only({ F(w) : w \in {e} })  the
\* value of e is computed before F is applied to it, as a statement's effect
\* is complete before the next statement runs.
Only(S) == CHOOSE x \in S : TRUE

\* the inner load loop of update, from dz on
RECURSIVE LoadRow(_, _, _, _, _)
LoadRow(W, pcx, pcz, dx, dz) ==
    IF dz > RENDER_DISTANCE THEN W
    ELSE Only({ LoadRow(w, pcx, pcz, dx, dz + 1) :
                  w \in {loadChunk(W, ScanKey(pcx, pcz, dx, dz)[1],
                                      ScanKey(pcx, pcz, dx, dz)[2])} })

\* the outer load loop of update, from dx on
RECURSIVE LoadInRange(_, _, _, _)
LoadInRange(W, pcx, pcz, dx) ==
    IF dx > RENDER_DISTANCE THEN W
    ELSE Only({ LoadInRange(w, pcx, pcz, dx + 1) :
                  w \in {LoadRow(W, pcx, pcz, dx, -RENDER_DISTANCE)} })

\* the test of update's unload loop
\* (a variant with no hysteresis band: it unloads beyond RENDER_DISTANCE)
OutOfRangeTight(key, pcx, pcz) ==
    \/ Abs(key[1] - pcx) > RENDER_DISTANCE
    \/ Abs(key[2] - pcz) > RENDER_DISTANCE

OutOfRange(key, pcx, pcz) ==
    \/ Abs(key[1] - pcx) > RENDER_DISTANCE + 1
    \/ Abs(key[2] - pcz) > RENDER_DISTANCE + 1

\* the unload loop of update over the entries left to visit.  The Map is
\* visited in insertion order; unloadChunk touches only its own entry, so the
\* order does not show in the result, and an entry that is in range is
\* passed over.
RECURSIVE UnloadOutOfRange(_, _, _, _)
UnloadOne(W, pcx, pcz, left, key) ==
    Only({ UnloadOutOfRange(w, pcx, pcz, left \ {key}) :
             w \in {unloadChunk(W, key[1], key[2])} })

UnloadOutOfRange(W, pcx, pcz, left) ==
    IF \A k \in left : ~OutOfRange(k, pcx, pcz) THEN W
    ELSE UnloadOne(W, pcx, pcz, left,
                   CHOOSE k \in left : OutOfRange(k, pcx, pcz))

\* update(px, pz), with the position in millionths: the world and the
\* remembered centre after it.  last is <<>> for _lastPCX = _lastPCZ = null.
UnloadAll(W, pcx, pcz) == UnloadOutOfRange(W, pcx, pcz, DOMAIN W.chunks)

Scan(W, pcx, pcz) ==
    [W |-> Only({ UnloadAll(w, pcx, pcz) :
                    w \in {LoadInRange(W, pcx, pcz, -RENDER_DISTANCE)} }),
     last |-> <<pcx, pcz>>]

\* an update that scans on every call
updateAlways(W, last, px, pz) ==
    Scan(W, FloorDiv(px, CHUNK_SIZE * POS), FloorDiv(pz, CHUNK_SIZE * POS))

update(W, last, px, pz) ==
    IF last = <<FloorDiv(px, CHUNK_SIZE * POS), FloorDiv(pz, CHUNK_SIZE * POS)>>
    THEN [W |-> W, last |-> last]
    ELSE Scan(W, FloorDiv(px, CHUNK_SIZE * POS), FloorDiv(pz, CHUNK_SIZE * POS))

\* _rebuildChunk
rebuildChunk(W, cx, cz) ==
    IF HasChunk(W, cx, cz) THEN buildMesh(W, chunkKey(cx, cz)) ELSE W

\* the edited chunk only
RebuildKeysOwn(cx, cz, lx, lz) == <<chunkKey(cx, cz)>>

\* the chunks setBlockWorld rebuilds after a write at local (lx, lz) of chunk
\* (cx, cz), in order: the chunk itself, then each neighbour whose border the
\* voxel touches
RebuildKeys(cx, cz, lx, lz) ==
    <<chunkKey(cx, cz)>>
      \o (IF lx = 0 THEN <<chunkKey(cx - 1, cz)>> ELSE <<>>)
      \o (IF lx = CHUNK_SIZE - 1 THEN <<chunkKey(cx + 1, cz)>> ELSE <<>>)
      \o (IF lz = 0 THEN <<chunkKey(cx, cz - 1)>> ELSE <<>>)
      \o (IF lz = CHUNK_SIZE - 1 THEN <<chunkKey(cx, cz + 1)>> ELSE <<>>)

\* the rebuilds of setBlockWorld, one after the other
RECURSIVE RebuildAll(_, _)
RebuildAll(W, keys) ==
    IF keys = <<>> THEN W
    ELSE Only({ RebuildAll(w, Tail(keys)) :
                  w \in {rebuildChunk(W, Head(keys)[1], Head(keys)[2])} })

\* setBlockWorld
setBlockWorld(W, wx, wy, wz, type) ==
    IF ~HasChunk(W, ChunkOf(wx), ChunkOf(wz)) THEN W
    ELSE RebuildAll(
           [W EXCEPT !.chunks[chunkKey(ChunkOf(wx), ChunkOf(wz))] =
              Chunk_setBlock(@, LocalOf(wx), wy, LocalOf(wz), type)],
           RebuildKeys(ChunkOf(wx), ChunkOf(wz), LocalOf(wx), LocalOf(wz)))

---------------------------------------------------------------------------
(* State after construction                                                *)

\* new World(scene): an empty chunk map, nothing remembered
WorldInit ==
    /\ chunks = [k \in {} |-> NewChunk(0, 0)]
    /\ scene = {}
    /\ lastPC = <<>>

---------------------------------------------------------------------------
(* The world under load, unload, setBlock and streaming                    *)
(*                                                                         *)
(* hist is a record of the run that no operation reads: last names the     *)
(* last call and its arguments (for a load, also whether the chunk was     *)
(* absent; for an update, whether it scanned and then the observer's       *)
(* block x, z); trail holds the centres of the last scans (three at most)  *)
(* made since the last load, unload or edit that was not part of a scan;   *)
(* edits counts the setBlock calls.                                        *)

\* how many setBlock calls a run makes
MaxEdits == 1

\* where the observer stands (block x, z): inside chunks (0, 0), (1, 0) and
\* (1, 2)
ObserverSites == {<<8, 8>>, <<24, 8>>, <<24, 40>>}

\* the chunks loaded and unloaded by direct calls, and the voxels edited,
\* while the world is streamed
StreamLoadSites == {<<0, 0>>}
StreamEditSites == {<<0, SEA_LEVEL, 0>>}

\* the chunks loaded and unloaded by direct calls, and the voxels edited,
\* in the world without streaming: the four chunks around the origin, two
\* voxels facing each other in their common corner and one on a border
LoadSites == {<<-1, -1>>, <<0, -1>>, <<-1, 0>>, <<0, 0>>}
EditSites == {<<0, SEA_LEVEL, 0>>, <<0, SEA_LEVEL, -1>>, <<-1, SEA_LEVEL, 5>>}

\* the block types written
EditTypes == {AIR, STONE}

TheWorld == [chunks |-> chunks, scene |-> scene]

\* world.loadChunk(cx, cz)
Load(c) ==
    \E W \in {loadChunk(TheWorld, c[1], c[2])} :
        /\ chunks' = W.chunks
        /\ scene' = W.scene
        /\ hist' = [hist EXCEPT !.trail = <<>>,
                                !.last = <<"load", c, ~HasChunk(TheWorld, c[1], c[2])>>]
        /\ UNCHANGED <<lastPC, player, camera, noise, probe>>

\* world.unloadChunk(cx, cz)
Unload(c) ==
    \E W \in {unloadChunk(TheWorld, c[1], c[2])} :
        /\ chunks' = W.chunks
        /\ scene' = W.scene
        /\ hist' = [hist EXCEPT !.trail = <<>>, !.last = <<"unload", c>>]
        /\ UNCHANGED <<lastPC, player, camera, noise, probe>>

\* world.setBlockWorld(wx, wy, wz, type)
SetBlock(v, type) ==
    /\ hist.edits < MaxEdits
    /\ \E W \in {setBlockWorld(TheWorld, v[1], v[2], v[3], type)} :
        /\ chunks' = W.chunks
        /\ scene' = W.scene
        /\ hist' = [last |-> <<"setBlock", v, type>>, trail |-> <<>>,
                    edits |-> hist.edits + 1]
        /\ UNCHANGED <<lastPC, player, camera, noise, probe>>

\* world.update(px, pz) with the observer at block (x, z)
StreamAround(x, z) ==
    \E r \in {update(TheWorld, lastPC, x * POS, z * POS)} :
        /\ chunks' = r.W.chunks
        /\ scene' = r.W.scene
        /\ lastPC' = r.last
        /\ hist' = [hist EXCEPT
                      !.last = <<"update", r.last # lastPC, <<x, z>>>>,
                      !.trail = IF r.last = lastPC THEN @
                                ELSE IF Len(@) < 3 THEN Append(@, r.last)
                                ELSE Append(Tail(@), r.last)]
        /\ UNCHANGED <<player, camera, noise, probe>>

HistInit == [last |-> <<"new">>, trail |-> <<>>, edits |-> 0]

Idle == [unused |-> TRUE]

Init ==
    /\ WorldInit
    /\ player = Idle
    /\ camera = Idle
    /\ noise = Idle
    /\ probe = Idle
    /\ hist = HistInit

\* the streamed world
Next ==
    \/ \E c \in StreamLoadSites : Load(c)
    \/ \E c \in StreamLoadSites : Unload(c)
    \/ \E v \in StreamEditSites, type \in EditTypes : SetBlock(v, type)
    \/ \E o \in ObserverSites : StreamAround(o[1], o[2])

Spec == Init /\ [][Next]_vars

\* the world of the four chunks around the origin, without streaming
NextEdit ==
    \/ \E c \in LoadSites : Load(c)
    \/ \E c \in LoadSites : Unload(c)
    \/ \E v \in EditSites, type \in EditTypes : SetBlock(v, type)

SpecEdit == Init /\ [][NextEdit]_vars

---------------------------------------------------------------------------
(* World coordinates: one setBlockWorld on a streamed world                *)

\* the world coordinates probed: every x from -CoordSpan to CoordSpan, and the z
\* on both sides of two chunk borders
CoordSpan == 40
CoordXs == (-CoordSpan)..CoordSpan
CoordZs == {-17, -16, -1, 0, 15, 16}

\* the world after the first update with the observer in chunk (0, 0)
FirstScan ==
    update([chunks |-> <<>>, scene |-> {}], <<>>, 8 * POS, 8 * POS)

InitCoord ==
    /\ \E r \in {FirstScan} :
          /\ chunks = r.W.chunks
          /\ scene = r.W.scene
          /\ lastPC = r.last
    /\ player = Idle
    /\ camera = Idle
    /\ noise = Idle
    /\ probe \in [wx : CoordXs, wz : CoordZs, written : {FALSE}]
    /\ hist = [last |-> <<"update", TRUE, <<8, 8>>>>, trail |-> <<lastPC>>,
               edits |-> 0]

\* setBlockWorld(wx, SEA_LEVEL, wz, WOOD) at the probed coordinate; the
\* generated terrain has no WOOD at sea level
WriteProbe ==
    /\ ~probe.written
    /\ \E W \in {setBlockWorld(TheWorld, probe.wx, SEA_LEVEL, probe.wz, WOOD)} :
        /\ chunks' = W.chunks
        /\ scene' = W.scene
        /\ probe' = [probe EXCEPT !.written = TRUE]
        /\ hist' = [last |-> <<"setBlock", <<probe.wx, SEA_LEVEL, probe.wz>>, WOOD>>,
                    trail |-> <<>>, edits |-> hist.edits + 1]
        /\ UNCHANGED <<lastPC, player, camera, noise>>

NextCoord == WriteProbe

SpecCoord == InitCoord /\ [][NextCoord]_vars

\* C5: for the probed world coordinates w, negative, zero and positive,
\* LocalOf(w) lies in 0..CHUNK_SIZE-1 and ChunkOf(w) * CHUNK_SIZE + LocalOf(w)
\* is w; and once setBlockWorld has written the probed voxel, getBlockWorld
\* reads the written type at that coordinate and at no other probed one.
C5_CoordinateRoundTrip ==
    /\ \A w \in {probe.wx, probe.wz} :
          /\ LocalOf(w) \in 0..(CHUNK_SIZE - 1)
          /\ ChunkOf(w) * CHUNK_SIZE + LocalOf(w) = w
    /\ probe.written =>
          \A x \in CoordXs, z \in CoordZs :
              (getBlockWorld(TheWorld, x, SEA_LEVEL, z) = WOOD)
                <=> (x = probe.wx /\ z = probe.wz)

\* a voxel with negative coordinates off every chunk border was written
C5_NegativeWritten ==
    /\ probe.written
    /\ probe.wx = -19
    /\ probe.wz = -17
    /\ getBlockWorld(TheWorld, -19, SEA_LEVEL, -17) = WOOD

---------------------------------------------------------------------------
(* noise.js: the constructor's seeded shuffle                              *)
(*                                                                         *)
(* noise is [seed, s, i, j, p, perm, pc]: the constructor's locals, the    *)
(* table, and where the constructor stands ("shuffle" before the loop      *)
(* iteration for i, "fill" before the last loop, "done").  j is the swap   *)
(* index of the last iteration (0 before the first).                       *)

\* the seed terrain.js constructs its noise with
TERRAIN_SEED == 42

\* the modulus and multiplier of the shuffle
LCG_MOD == 2147483647
LCG_MUL == 16807

\* x | 0 for x = a * LCG_MOD: the low 32 bits of the product, as a signed
\* number, through 16-bit halves
ToInt32Product(a) ==
    LET lowPart == a * (LCG_MOD % 65536)
        lo == lowPart % 65536
        hi == (a * (LCG_MOD \div 65536) + (lowPart \div 65536)) % 65536
    IN  IF hi >= 32768 THEN (hi - 65536) * 65536 + lo ELSE hi * 65536 + lo

\* (x * LCG_MUL) mod LCG_MOD for 0 <= x <= LCG_MOD, without leaving 32 bits
MulMod(x) ==
    LET q == LCG_MOD \div LCG_MUL
        r == LCG_MOD % LCG_MUL
        t == LCG_MUL * (x % q) - r * (x \div q)
    IN  IF t < 0 THEN t + LCG_MOD ELSE t

\* (s * 16807) % 2147483647 with the sign of s
NextS(s) == IF s >= 0 THEN MulMod(s) ELSE -MulMod(-s)

\* p[k] of a Uint8Array of 256: undefined, stored as 0, off the array
ReadP(p, k) == IF k \in DOMAIN p THEN p[k] ELSE 0

\* [p[i], p[j]] = [p[j], p[i]]: both reads, then p[i], then p[j]; a write off
\* the array is dropped
SwapP(p, i, j) ==
    LET pj == ReadP(p, j)
        pi == ReadP(p, i)
        p1 == [p EXCEPT ![i] = pj]
    IN  IF j \in DOMAIN p1 THEN [p1 EXCEPT ![j] = pi] ELSE p1

\* the constructor up to the shuffle loop
NewNoise(seed) ==
    [seed |-> seed, s |-> ToInt32Product(seed), i |-> 255, j |-> 0,
     p |-> [k \in 0..255 |-> k], perm |-> [k \in 0..511 |-> 0],
     pc |-> "shuffle"]

\* the seeds tried: -SeedSpan..SeedSpan and the terrain's seed
SeedSpan == 3
Seeds == ((-SeedSpan)..SeedSpan) \cup {TERRAIN_SEED}

InitNoise ==
    /\ WorldInit
    /\ player = Idle
    /\ camera = Idle
    /\ probe = Idle
    /\ hist = HistInit
    /\ noise \in { NewNoise(seed) : seed \in Seeds }

\* one iteration of the shuffle loop
ShuffleStep ==
    LET s1 == NextS(noise.s)
        j == JsRem(s1, noise.i + 1)
    IN  /\ noise.pc = "shuffle"
        /\ noise.i > 0
        /\ noise' = [noise EXCEPT !.s = s1, !.j = j,
                                  !.p = SwapP(noise.p, noise.i, j),
                                  !.i = noise.i - 1]
        /\ UNCHANGED <<chunks, scene, lastPC, player, camera, probe, hist>>

\* the end of the shuffle loop and the loop that fills perm
FillPerm ==
    /\ noise.pc = "shuffle"
    /\ noise.i = 0
    /\ noise' = [noise EXCEPT !.perm = [k \in 0..511 |-> noise.p[k % 256]],
                              !.pc = "done"]
    /\ UNCHANGED <<chunks, scene, lastPC, player, camera, probe, hist>>

NextNoise == ShuffleStep \/ FillPerm

SpecNoise == InitNoise /\ [][NextNoise]_vars

\* C6: for every seed tried, every swap index j of the shuffle lies in 0..i
\* (i the index it is swapped with), and the finished table holds each value
\* 0..255 exactly once in entries 0..255 and repeats them in entries 256..511.
C6_ValidPermutation ==
    /\ noise.pc = "shuffle" => noise.j \in 0..(noise.i + 1)
    /\ noise.pc = "done" =>
          /\ { noise.perm[k] : k \in 0..255 } = 0..255
          /\ \A k \in 0..255 : noise.perm[k + 256] = noise.perm[k]

---------------------------------------------------------------------------
(* js/player.js: movement, physics, raycast and edits                      *)
(*                                                                         *)
(* Lengths are whole millionths of a block (POS), velocities thousandths   *)
(* of a block per second, frame times milliseconds, so that v * dt is a    *)
(* length and a * dt a velocity without rounding.  Angles are quarter      *)
(* turns: yaw in 0..3, pitch in -1..1, for which sine and cosine are       *)
(* taken as exactly -1, 0 or 1.  player is [pos, vel, onGround, yaw,       *)
(* pitch, selectedBlock, keys]; camera is [pos, yaw, pitch].               *)

GRAVITY == -28
WATER_GRAVITY == -6
SWIM_FORCE == 5
JUMP_FORCE == 10
MOVE_SPEED == 6
REACH == 5
PLAYER_HEIGHT == (17 * POS) \div 10
PLAYER_WIDTH == (4 * POS) \div 10

\* thousandths of a block per second in one block per second
VEL == 10 * 10 * 10

Sin(q) == <<0, 1, 0, -1>>[(q % 4) + 1]
Cos(q) == <<1, 0, -1, 0>>[(q % 4) + 1]

\* Math.floor of a length, in blocks
FloorBlock(a) == FloorDiv(a, POS)

\* Math.pow(1 - WATER_DRAG, dt) in millionths for dt in whole milliseconds up
\* to 50: the first four terms of exp(-dt ln 5 / 1000), within 2 millionths
DragFactor(dt) ==
    POS - (1609438 * dt) \div 1000 + (1295 * dt * dt) \div 1000
        - (695 * dt * dt * dt) \div POS

\* new Player(camera, world)
NewPlayer ==
    [pos |-> <<0, 40 * POS, 0>>, vel |-> <<0, 0, 0>>, onGround |-> FALSE,
     yaw |-> 0, pitch |-> 0, selectedBlock |-> GRASS, keys |-> {}]

\* updateCamera
updateCamera(P) ==
    [pos |-> <<P.pos[1], P.pos[2] + PLAYER_HEIGHT - POS \div 10, P.pos[3]>>,
     yaw |-> P.yaw, pitch |-> P.pitch]

\* _isInWater
isInWater(P, W) ==
    getBlockWorld(W, FloorBlock(P.pos[1]),
                     FloorBlock(P.pos[2] + PLAYER_HEIGHT \div 2),
                     FloorBlock(P.pos[3])) = WATER

\* the x and z of _move after the key tests, before normalize
MoveSum(P) ==
    LET fwd == <<-Sin(P.yaw), -Cos(P.yaw)>>
        rgt == <<Cos(P.yaw), -Sin(P.yaw)>>
        k(name) == IF name \in P.keys THEN 1 ELSE 0
        a == k("KeyW") - k("KeyS")
        b == k("KeyD") - k("KeyA")
    IN  <<a * fwd[1] + b * rgt[1], a * fwd[2] + b * rgt[2]>>

\* normalize().multiplyScalar(MOVE_SPEED) of one component c of a _move of
\* squared length n2: MOVE_SPEED / sqrt(2) is 4.242641 to the millionth
MoveSpeed(c, n2) ==
    IF n2 = 0 THEN 0
    ELSE IF n2 = 1 THEN c * MOVE_SPEED * VEL
    ELSE c * 4243

\* a handleMovement that jumps whenever Space is held
handleMovementAirJump(P, W, dt) ==
    LET m == MoveSum(P)
        n2 == m[1] * m[1] + m[2] * m[2]
    IN  [P EXCEPT !.vel = <<MoveSpeed(m[1], n2),
                            IF "Space" \in P.keys THEN JUMP_FORCE * VEL
                            ELSE P.vel[2],
                            MoveSpeed(m[2], n2)>>,
                  !.onGround = IF "Space" \in P.keys THEN FALSE ELSE @]

\* handleMovement(dt)
handleMovement(P, W, dt) ==
    LET m == MoveSum(P)
        n2 == m[1] * m[1] + m[2] * m[2]
        vx == MoveSpeed(m[1], n2)
        vz == MoveSpeed(m[2], n2)
        swum == Min(P.vel[2] + (SWIM_FORCE * 60 * dt * dt) \div VEL,
                    SWIM_FORCE * VEL)
    IN  IF isInWater(P, W)
        THEN [P EXCEPT !.vel = <<vx, IF "Space" \in P.keys THEN swum
                                     ELSE P.vel[2], vz>>]
        ELSE IF "Space" \in P.keys /\ P.onGround
             THEN [P EXCEPT !.vel = <<vx, JUMP_FORCE * VEL, vz>>,
                            !.onGround = FALSE]
             ELSE [P EXCEPT !.vel = <<vx, P.vel[2], vz>>]

\* the offsets collideAxis probes, in order; axes are 1 = x, 2 = y, 3 = z
CollideOffsets(axis) ==
    LET w == PLAYER_WIDTH \div 2
        h == PLAYER_HEIGHT
    IN  IF axis = 2
        THEN << <<-w, 0, -w>>, <<-w, h, -w>>, <<w, 0, -w>>, <<w, h, -w>>,
                <<-w, 0, w>>,  <<-w, h, w>>,  <<w, 0, w>>,  <<w, h, w>> >>
        ELSE IF axis = 1
        THEN << <<w, 0, 0>>, <<-w, 0, 0>>, <<w, POS, 0>>, <<-w, POS, 0>>,
                <<w, 2 * POS, 0>>, <<-w, 2 * POS, 0>> >>
        ELSE << <<0, 0, w>>, <<0, 0, -w>>, <<0, POS, w>>, <<0, POS, -w>>,
                <<0, 2 * POS, w>>, <<0, 2 * POS, -w>> >>

\* the voxel a probe at offset o falls in
ProbeVoxel(P, o) ==
    <<FloorBlock(P.pos[1] + o[1]), FloorBlock(P.pos[2] + o[2]),
      FloorBlock(P.pos[3] + o[3])>>

\* the test of collideAxis on the block a probe finds
Solid(block) == block # AIR /\ block # WATER /\ block > 0

\* the index of the first probe that finds a solid block, 0 if none does
FirstHit(P, W, offs) ==
    LeastOrZero({ i \in 1..Len(offs) :
                    Solid(getBlockWorld(W, ProbeVoxel(P, offs[i])[1],
                                           ProbeVoxel(P, offs[i])[2],
                                           ProbeVoxel(P, offs[i])[3])) })

\* a response that moves the player out of the block and keeps its speed
RespondKeepsSpeed(P, axis, o, b) ==
    IF axis = 2
    THEN IF P.vel[2] < 0
         THEN [P EXCEPT !.pos[2] = (b[2] + 1) * POS, !.onGround = TRUE]
         ELSE [P EXCEPT !.pos[2] = b[2] * POS - PLAYER_HEIGHT]
    ELSE [P EXCEPT !.pos[axis] = IF o[axis] > 0
                                 THEN b[axis] * POS - PLAYER_WIDTH \div 2
                                 ELSE (b[axis] + 1) * POS + PLAYER_WIDTH \div 2]

\* the response of collideAxis to a solid block in voxel b found at offset o
Respond(P, axis, o, b) ==
    IF axis = 2
    THEN IF P.vel[2] < 0
         THEN [P EXCEPT !.pos[2] = (b[2] + 1) * POS, !.onGround = TRUE,
                        !.vel[2] = 0]
         ELSE [P EXCEPT !.pos[2] = b[2] * POS - PLAYER_HEIGHT, !.vel[2] = 0]
    ELSE [P EXCEPT !.pos[axis] = IF o[axis] > 0
                                 THEN b[axis] * POS - PLAYER_WIDTH \div 2
                                 ELSE (b[axis] + 1) * POS + PLAYER_WIDTH \div 2,
                   !.vel[axis] = 0]

\* the loop of collideAxis, which ends at the first solid block
CollideFirst(P, axis, offs, first) ==
    IF first = 0 THEN P
    ELSE Respond(P, axis, offs[first], ProbeVoxel(P, offs[first]))

\* a last line that clears onGround after every vertical step
AirborneAfterY(P, axis) ==
    IF axis = 2 THEN [P EXCEPT !.onGround = FALSE] ELSE P

\* the last line of collideAxis
Airborne(P, axis) ==
    IF axis = 2 /\ P.vel[2] # 0 THEN [P EXCEPT !.onGround = FALSE] ELSE P

\* collideAxis(axis)
collideAxis(P, W, axis) ==
    Airborne(CollideFirst(P, axis, CollideOffsets(axis),
                          FirstHit(P, W, CollideOffsets(axis))), axis)

\* pos[axis] += vel[axis] * dt
Advance(P, axis, dt) == [P EXCEPT !.pos[axis] = @ + P.vel[axis] * dt]

\* the sign-keeping quotient of a product of a velocity and a factor in
\* millionths, computed in two halves to stay within 32 bits
Scale(v, f) ==
    LET a == Abs(v)
        q == (((a \div VEL) * f) \div VEL) + (((a % VEL) * f) \div POS)
    IN  IF v < 0 THEN -q ELSE q

\* the first lines of applyPhysics: gravity, and drag in water
Fall(P, inWater, dt) ==
    [P EXCEPT !.vel[2] = IF inWater
                         THEN Scale(@ + WATER_GRAVITY * dt, DragFactor(dt))
                         ELSE @ + GRAVITY * dt]

\* applyPhysics(dt)
applyPhysics(P, W, dt) ==
    collideAxis(
      Advance(collideAxis(
                Advance(collideAxis(
                          Advance(Fall(P, isInWater(P, W), dt), 1, dt),
                          W, 1),
                        2, dt),
                W, 2),
              3, dt),
      W, 3)

\* update(dt): the player after the frame, and the camera it leaves
PlayerUpdate(P, W, dt) ==
    [player |-> applyPhysics(handleMovement(P, W, dt), W, dt),
     camera |-> updateCamera(P)]

\* _rayDir: (0, 0, -1) turned by the look angles, for a level look (pitch 0);
\* the mouse handler keeps the pitch short of a quarter turn, so the level
\* rays are the axis-aligned ones
LookDir(P) == <<-Sin(P.yaw), 0, -Cos(P.yaw)>>

\* Infinity among ray distances, which stay below REACH + 1 blocks otherwise
Infinity == 1000 * POS

\* the result of a raycast that returns null
NoTarget == [hit |-> <<>>, before |-> <<>>]

\* A ray direction is kept as a vector d of integers whose length is an
\* integer too, such as (0, 0, -1), (1, 2, 2) or (3, 0, -4); _rayDir is d
\* divided by DirLength(d).
MaxDirLength == 9
DirLength(d) ==
    CHOOSE len \in 1..MaxDirLength :
        len * len = d[1] * d[1] + d[2] * d[2] + d[3] * d[3]

\* stepX, tDeltaX and the initial tMaxX, for axis a of a ray from p with
\* direction d; distances in millionths, the quotients cut to a whole number
RayStep(d) == IF d >= 0 THEN 1 ELSE -1
TDelta(d, a) ==
    IF d[a] = 0 THEN Infinity ELSE (POS * DirLength(d)) \div Abs(d[a])
TMax0(p, d, a) ==
    IF d[a] = 0 THEN Infinity
    ELSE IF d[a] > 0
    THEN ((POS - (p[a] - FloorBlock(p[a]) * POS)) * DirLength(d))
           \div Abs(d[a])
    ELSE ((p[a] - FloorBlock(p[a]) * POS) * DirLength(d)) \div Abs(d[a])

\* a choice of axis that leaves the vertical one out
StepAxisLevel(t) == IF t[1] < t[3] THEN 1 ELSE 3

\* the axis the loop of raycast advances on
StepAxis(t) ==
    IF t[1] < t[2] /\ t[1] < t[3] THEN 1 ELSE IF t[2] < t[3] THEN 2 ELSE 3

\* the test of raycast on the block of the voxel it enters
RayHits(block) == block # AIR /\ block > 0

RECURSIVE RayWalk(_, _, _, _)

\* a visit that reports the entered voxel as before
RayVisitSelf(W, d, last, i, t) ==
    IF RayHits(getBlockWorld(W, i[1], i[2], i[3]))
    THEN [hit |-> i, before |-> i]
    ELSE RayWalk(W, d, i, t)

\* the end of one pass of the loop: the ray entered voxel i from voxel last
RayVisit(W, d, last, i, t) ==
    IF RayHits(getBlockWorld(W, i[1], i[2], i[3]))
    THEN [hit |-> i, before |-> last]
    ELSE RayWalk(W, d, i, t)

\* the first half of one pass of the loop, on axis a: last, the voxel index
\* and tMax after the step
RayNext(d, i, t, a) ==
    [last |-> i,
     i |-> [i EXCEPT ![a] = @ + RayStep(d[a])],
     t |-> [t EXCEPT ![a] = @ + TDelta(d, a)]]

\* the step of the loop on axis a
RayAdvance(W, d, i, t, a) ==
    RayVisit(W, d, RayNext(d, i, t, a).last, RayNext(d, i, t, a).i,
             RayNext(d, i, t, a).t)

\* the loop of raycast from voxel i with distances t = <<tMaxX, tMaxY, tMaxZ>>
RayWalk(W, d, i, t) ==
    IF Min(t[1], Min(t[2], t[3])) < REACH * POS
    THEN RayAdvance(W, d, i, t, StepAxis(t))
    ELSE NoTarget

\* raycast() from position p in direction d
RayFrom(W, p, d) ==
    RayWalk(W, d, <<FloorBlock(p[1]), FloorBlock(p[2]), FloorBlock(p[3])>>,
            <<TMax0(p, d, 1), TMax0(p, d, 2), TMax0(p, d, 3)>>)

\* raycast()
raycast(P, C, W) == RayFrom(W, C.pos, LookDir(P))

\* breakBlock() after its raycast returned r
BreakAt(W, r) ==
    IF r.hit = <<>> THEN W
    ELSE setBlockWorld(W, r.hit[1], r.hit[2], r.hit[3], AIR)

\* breakBlock(): the world after it
breakBlock(P, C, W) == BreakAt(W, raycast(P, C, W))

\* a test that never finds an overlap
OverlapsNever(P, v) == FALSE

\* overlapX && overlapZ && overlapY of placeBlock for voxel v
Overlaps(P, v) ==
    /\ (v[1] + 1) * POS > P.pos[1] - PLAYER_WIDTH \div 2
    /\ v[1] * POS < P.pos[1] + PLAYER_WIDTH \div 2
    /\ (v[3] + 1) * POS > P.pos[3] - PLAYER_WIDTH \div 2
    /\ v[3] * POS < P.pos[3] + PLAYER_WIDTH \div 2
    /\ (v[2] + 1) * POS > P.pos[2]
    /\ v[2] * POS < P.pos[2] + PLAYER_HEIGHT

\* placeBlock() after its raycast returned r
PlaceAt(P, W, r) ==
    IF r.before = <<>> THEN W
    ELSE IF Overlaps(P, r.before) THEN W
    ELSE setBlockWorld(W, r.before[1], r.before[2], r.before[3],
                       P.selectedBlock)

\* placeBlock(): the world after it
placeBlock(P, C, W) == PlaceAt(P, W, raycast(P, C, W))

---------------------------------------------------------------------------
(* A drop onto one block: a world of one chunk that holds a single stone,  *)
(* the player released above it with no key held, and frames of player     *)
(* update.                                                                 *)

DropBlock == <<8, 4, 8>>
MaxDrop == 17
DropDepth == 3

\* frame times in milliseconds; main.js caps a frame at 50
DtSet == {25, 50}

\* starting heights of the feet: whole and half blocks above the stone's top
DropHeights ==
    {(DropBlock[2] + 1) * POS + k * (POS \div 2) : k \in 1..(2 * MaxDrop)}

OneBlockWorld(v, type) ==
    [chunks |-> (chunkKey(0, 0) :>
                   Chunk_setBlock(NewChunk(0, 0), v[1], v[2], v[3], type)),
     scene |-> {}]

NewCamera == [pos |-> <<0, 0, 0>>, yaw |-> 0, pitch |-> 0]

InitDrop ==
    /\ chunks = OneBlockWorld(DropBlock, STONE).chunks
    /\ scene = {}
    /\ lastPC = <<>>
    /\ \E h \in DropHeights :
          player = [NewPlayer EXCEPT
                      !.pos = <<DropBlock[1] * POS + POS \div 2, h,
                                DropBlock[3] * POS + POS \div 2>>]
    /\ camera = NewCamera
    /\ noise = Idle
    /\ probe = Idle
    /\ hist = HistInit

\* one frame of the game loop's player.update(dt)
Tick(dt) ==
    /\ player.pos[2] >= -DropDepth * POS
    /\ \E r \in {PlayerUpdate(player, TheWorld, dt)} :
        /\ player' = r.player
        /\ camera' = r.camera
        /\ hist' = [hist EXCEPT !.last = <<"update", dt>>]
        /\ UNCHANGED <<chunks, scene, lastPC, noise, probe>>

NextDrop == \E dt \in DtSet : Tick(dt)

SpecDrop == InitDrop /\ [][NextDrop]_vars

\* C7: a player dropped onto the single block comes to rest on it: grounded,
\* vel.y = 0, feet at the block's y + 1.  With no key held the player never
\* moves up, so a player that comes to rest on the block is at no frame
\* wholly beneath it: the head is never below the block's underside.
C7_DropComesToRest ==
    player.pos[2] + PLAYER_HEIGHT >= DropBlock[2] * POS

---------------------------------------------------------------------------
(* Aiming at one block: a world of one chunk that holds a single stone,    *)
(* the player held level with it on one of its four sides at a chosen      *)
(* distance, and the mouse handlers: turning, breakBlock and placeBlock.   *)

AimBlock == <<8, 20, 8>>

\* distances from the camera to the near face of the stone, in millionths
AimDistances ==
    {0, POS \div 10, (3 * POS) \div 10, (12 * POS) \div 10, (25 * POS) \div 10,
     (49 * POS) \div 10, REACH * POS - 1, REACH * POS, REACH * POS + 1,
     (53 * POS) \div 10, (65 * POS) \div 10}

\* the coordinate at distance d before the near face of voxel coordinate c
\* for a look with direction component e, and level with its middle for e = 0
Facing(c, e, d) ==
    IF e = 0 THEN c * POS + POS \div 2
    ELSE IF e < 0 THEN (c + 1) * POS + d
    ELSE c * POS - d

\* the feet of a player whose camera faces the stone at distance d when the
\* yaw is q
AimStand(q, d) ==
    <<Facing(AimBlock[1], -Sin(q), d),
      AimBlock[2] * POS + POS \div 2 - (PLAYER_HEIGHT - POS \div 10),
      Facing(AimBlock[3], -Cos(q), d)>>

InitAim ==
    /\ chunks = OneBlockWorld(AimBlock, STONE).chunks
    /\ scene = {}
    /\ lastPC = <<>>
    /\ \E q \in 0..3, d \in AimDistances :
          /\ player = [NewPlayer EXCEPT !.pos = AimStand(q, d)]
          /\ camera = updateCamera(player)
    /\ noise = Idle
    /\ probe = Idle
    /\ hist = HistInit

\* mousemove: the yaw turns to q quarter turns
Look(q) ==
    /\ q # player.yaw
    /\ player' = [player EXCEPT !.yaw = q]
    /\ hist' = [hist EXCEPT !.last = <<"look", q>>]
    /\ UNCHANGED <<chunks, scene, lastPC, camera, noise, probe>>

\* mousedown, button 0: breakBlock()
BreakBlock ==
    /\ hist.edits < MaxEdits
    /\ \E W \in {breakBlock(player, camera, TheWorld)} :
          /\ chunks' = W.chunks
          /\ scene' = W.scene
    /\ hist' = [hist EXCEPT !.last = <<"break",
                                       raycast(player, camera, TheWorld)>>,
                            !.edits = @ + 1]
    /\ UNCHANGED <<lastPC, player, camera, noise, probe>>

\* mousedown, button 2: placeBlock()
PlaceBlock ==
    /\ hist.edits < MaxEdits
    /\ \E W \in {placeBlock(player, camera, TheWorld)} :
          /\ chunks' = W.chunks
          /\ scene' = W.scene
    /\ hist' = [hist EXCEPT !.last = <<"place",
                                       raycast(player, camera, TheWorld)>>,
                            !.edits = @ + 1]
    /\ UNCHANGED <<lastPC, player, camera, noise, probe>>

NextAim ==
    \/ \E q \in 0..3 : Look(q)
    \/ BreakBlock
    \/ PlaceBlock

SpecAim == InitAim /\ [][NextAim]_vars

\* the voxel of the camera
EyeVoxel ==
    <<FloorBlock(camera.pos[1]), FloorBlock(camera.pos[2]),
      FloorBlock(camera.pos[3])>>

\* the number of voxels from the camera's voxel to the stone along the look,
\* 0 if the stone is not straight ahead
StepsAhead ==
    LET ahead == { k \in 1..(REACH + 3) :
                     AimBlock = <<EyeVoxel[1] + k * LookDir(player)[1],
                                  EyeVoxel[2],
                                  EyeVoxel[3] + k * LookDir(player)[3]>> }
    IN  IF ahead = {} THEN 0 ELSE Least(ahead)

\* the distance from the camera to the near face of the stone along the look
FaceDistance ==
    LET e == LookDir(player)
        a == IF e[1] # 0 THEN 1 ELSE 3
    IN  IF e[a] < 0 THEN camera.pos[a] - (AimBlock[a] + 1) * POS
        ELSE AimBlock[a] * POS - camera.pos[a]

\* the stone is the only block of the world
StoneAlone ==
    /\ DOMAIN chunks = {chunkKey(0, 0)}
    /\ DOMAIN chunks[chunkKey(0, 0)].set = {AimBlock}

\* C8: with the camera in an empty voxel and the look axis-aligned straight at
\* the isolated stone, the raycast returns the stone as hit and the voxel
\* next to it on the camera's side as before when the near face is closer
\* than REACH, and null when it is farther than REACH.
C8_RaycastReach ==
    (StoneAlone /\ StepsAhead > 0) =>
        /\ FaceDistance < REACH * POS =>
              raycast(player, camera, TheWorld) =
                 [hit |-> AimBlock,
                  before |-> <<AimBlock[1] - LookDir(player)[1], AimBlock[2],
                               AimBlock[3] - LookDir(player)[3]>>]
        /\ FaceDistance > REACH * POS =>
              raycast(player, camera, TheWorld) = NoTarget

\* a break that removed the stone from four and a half blocks away, looking
\* along +x
C8_BrokenFromAfar ==
    /\ hist.last[1] = "break"
    /\ hist.last[2].hit = AimBlock
    /\ player.yaw = 3
    /\ camera.pos[1] = AimBlock[1] * POS - (49 * POS) \div 10
    /\ getBlockWorld(TheWorld, AimBlock[1], AimBlock[2], AimBlock[3]) = AIR

\* the voxels around the stone and the player
AimVoxels == (1..15) \X ((AimBlock[2] - 2)..(AimBlock[2] + 2)) \X (1..15)

\* the unit cube of voxel v and the player's box share a volume
CubeInBox(v, pos) ==
    /\ Max(v[1] * POS, pos[1] - PLAYER_WIDTH \div 2)
         < Min((v[1] + 1) * POS, pos[1] + PLAYER_WIDTH \div 2)
    /\ Max(v[2] * POS, pos[2]) < Min((v[2] + 1) * POS, pos[2] + PLAYER_HEIGHT)
    /\ Max(v[3] * POS, pos[3] - PLAYER_WIDTH \div 2)
         < Min((v[3] + 1) * POS, pos[3] + PLAYER_WIDTH \div 2)

\* C9: placeBlock writes at most the before voxel of its raycast, writes the
\* selected block there, and writes only if the voxel's unit cube does not
\* overlap the player's box; so no voxel it wrote overlaps the box.
C9_PlaceKeepsClear ==
    [][hist'.last[1] = "place" =>
         \A v \in AimVoxels :
            getBlockWorld([chunks |-> chunks', scene |-> scene'],
                          v[1], v[2], v[3])
              # getBlockWorld(TheWorld, v[1], v[2], v[3]) =>
                 /\ v = hist'.last[2].before
                 /\ getBlockWorld([chunks |-> chunks', scene |-> scene'],
                                  v[1], v[2], v[3]) = player.selectedBlock
                 /\ ~CubeInBox(v, player'.pos)]_vars

\* a placement into the voxel whose face touches the side of the player's box
C9_PlacedAtArmsLength ==
    /\ hist.last[1] = "place"
    /\ player.yaw = 0
    /\ player.pos[3] = (AimBlock[3] + 2) * POS + PLAYER_WIDTH \div 2
    /\ getBlockWorld(TheWorld, AimBlock[1], AimBlock[2], AimBlock[3] + 1)
         = player.selectedBlock

---------------------------------------------------------------------------
(* Properties of the streamed world                                        *)

\* the Chebyshev distance between two chunk coordinates
Cheb(a, b) == Max(Abs(a[1] - b[1]), Abs(a[2] - b[2]))

\* C1: an update call that scans (the observer's chunk differs from the last
\* scanned one, or nothing was scanned yet) leaves every chunk within
\* Chebyshev distance RENDER_DISTANCE of the new centre loaded and no chunk
\* beyond RENDER_DISTANCE + 1 loaded, and keeps every chunk that was loaded
\* at distance exactly RENDER_DISTANCE + 1.
C1_ScanLoadsNearUnloadsFar ==
    [][ lastPC' # lastPC =>
          /\ \A dx \in -RENDER_DISTANCE..RENDER_DISTANCE,
                dz \in -RENDER_DISTANCE..RENDER_DISTANCE :
                chunkKey(lastPC'[1] + dx, lastPC'[2] + dz) \in DOMAIN chunks'
          /\ \A k \in DOMAIN chunks' : Cheb(k, lastPC') <= RENDER_DISTANCE + 1
          /\ \A k \in DOMAIN chunks :
                Cheb(k, lastPC') = RENDER_DISTANCE + 1 => k \in DOMAIN chunks'
      ]_vars

\* a scan centred on chunk (1, 2) right after one centred on (0, 0): chunk
\* (-4, 0), at distance 5, is kept, chunk (0, -4), at distance 6, is gone,
\* and chunk (5, 6) is new
C1_ScannedAfterMove ==
    /\ hist.last[1] = "update"
    /\ hist.last[2]
    /\ hist.trail = << <<0, 0>>, <<1, 2>> >>
    /\ lastPC = <<1, 2>>
    /\ chunkKey(-4, 0) \in DOMAIN chunks
    /\ chunkKey(0, -4) \notin DOMAIN chunks
    /\ chunkKey(5, 6) \in DOMAIN chunks

\* C4: whatever load, unload, setBlock and update calls were made, the scene
\* holds exactly the opaque and water meshes the loaded chunks hold now, and
\* right after unloadChunk(cx, cz) the chunk map has no entry for (cx, cz).
C4_SceneIsLoadedMeshes ==
    /\ scene = HeldMeshes(chunks)
    /\ hist.last[1] = "unload" => hist.last[2] \notin DOMAIN chunks

\* an unload in a streamed world, after an edit, that leaves meshes behind
C4_UnloadedAfterEdit ==
    /\ hist.last = <<"unload", <<0, 0>>>>
    /\ hist.edits > 0
    /\ lastPC # <<>>
    /\ scene # {}

\* C10: once the observer has gone from chunk a to an adjacent chunk b with a
\* scan on each and nothing but update calls since, the scan made on going
\* back to a loads no chunk and unloads no chunk.
C10_AlternationIsQuiet ==
    [][ ( /\ lastPC' # lastPC
          /\ Len(hist.trail) >= 2
          /\ hist.trail[Len(hist.trail)] = lastPC
          /\ hist.trail[Len(hist.trail) - 1] = lastPC'
          /\ Cheb(lastPC, lastPC') = 1 )
        => (DOMAIN chunks' = DOMAIN chunks /\ scene' = scene)
      ]_vars

\* the observer is back on a after a, b, a with a and b adjacent
C10_BackAndForth ==
    /\ hist.last[1] = "update"
    /\ hist.last[2]
    /\ Len(hist.trail) = 3
    /\ hist.trail[1] = hist.trail[3]
    /\ Cheb(hist.trail[1], hist.trail[2]) = 1

---------------------------------------------------------------------------
(* Properties of the meshes along chunk borders                            *)

HorizontalDirs == {<<1, 0, 0>>, <<-1, 0, 0>>, <<0, 0, 1>>, <<0, 0, -1>>}

KeyOf(v) == chunkKey(ChunkOf(v[1]), ChunkOf(v[3]))

Step(v, d) == <<v[1] + d[1], v[2] + d[2], v[3] + d[3]>>

Opposite(d) == <<-d[1], -d[2], -d[3]>>

FaceToward(d) == CHOOSE f \in FaceIds : FACES[f].dir = d

Opaque(b) == b \in BLOCKS \ TRANSPARENT

\* a mesh of the loaded chunk of world voxel v holds v's face toward d
Recorded(W, v, d) ==
    /\ KeyOf(v) \in DOMAIN W.chunks
    /\ <<LocalOf(v[1]), v[2], LocalOf(v[3]), FaceToward(d)>>
         \in W.chunks[KeyOf(v)].mesh.faces
               \cup W.chunks[KeyOf(v)].waterMesh.faces

\* how many faces the meshes hold between v and the voxel next to it in
\* direction d
SeamFaces(W, v, d) ==
    (IF Recorded(W, v, d) THEN 1 ELSE 0)
      + (IF Recorded(W, Step(v, d), Opposite(d)) THEN 1 ELSE 0)

\* no face between two opaque blocks, exactly one between an opaque block and
\* air
SeamRule(W, v, d) ==
    LET a == getBlockWorld(W, v[1], v[2], v[3])
        n == Step(v, d)
        b == getBlockWorld(W, n[1], n[2], n[3])
    IN  /\ (Opaque(a) /\ Opaque(b)) => SeamFaces(W, v, d) = 0
        /\ ((Opaque(a) /\ b = AIR) \/ (a = AIR /\ Opaque(b)))
             => SeamFaces(W, v, d) = 1

\* the meshes of the chunk under key are what buildMesh would make of the
\* world as it is
MeshCurrent(W, key) ==
    LET now == W.chunks[key]
        built == buildMesh(W, key).chunks[key]
    IN  /\ built.mesh.faces = now.mesh.faces
        /\ built.waterMesh.faces = now.waterMesh.faces
        /\ (built.mesh = NoMesh) = (now.mesh = NoMesh)
        /\ (built.waterMesh = NoMesh) = (now.waterMesh = NoMesh)

\* C2: right after loadChunk has loaded a chunk that was absent, no mesh
\* holds a face between two opaque voxels that face each other across the
\* border of the new chunk and a loaded chunk next to it.
C2_LoadLeavesNoSeamFace ==
    (hist.last[1] = "load" /\ hist.last[3]) =>
        \A v \in MeshWindow, d \in HorizontalDirs :
            ( /\ KeyOf(v) = hist.last[2]
              /\ KeyOf(Step(v, d)) # KeyOf(v)
              /\ KeyOf(Step(v, d)) \in DOMAIN chunks
              /\ Opaque(getBlockWorld(TheWorld, v[1], v[2], v[3]))
              /\ Opaque(getBlockWorld(TheWorld, Step(v, d)[1], Step(v, d)[2],
                                      Step(v, d)[3])) )
            => SeamFaces(TheWorld, v, d) = 0

\* C3: right after setBlockWorld on a voxel of a loaded chunk that lies on a
\* border whose other side is loaded, the meshes of both chunks are those of
\* the world as it is, with no face between the voxel and the one across the
\* border when both are opaque and exactly one when one is opaque and the
\* other air; for a corner voxel this holds across both borders.
C3_BorderEditRebuildsBoth ==
    hist.last[1] = "setBlock" =>
        \A d \in HorizontalDirs :
            ( /\ KeyOf(hist.last[2]) \in DOMAIN chunks
              /\ KeyOf(Step(hist.last[2], d)) # KeyOf(hist.last[2])
              /\ KeyOf(Step(hist.last[2], d)) \in DOMAIN chunks )
            => /\ MeshCurrent(TheWorld, KeyOf(hist.last[2]))
               /\ MeshCurrent(TheWorld, KeyOf(Step(hist.last[2], d)))
               /\ SeamRule(TheWorld, hist.last[2], d)

\* the corner voxel (0, SEA_LEVEL, -1) was just cleared with the chunks
\* across both of its borders loaded: the opaque voxel to its west shows
\* exactly one face toward it
C3_CornerCleared ==
    /\ hist.last = <<"setBlock", <<0, SEA_LEVEL, -1>>, AIR>>
    /\ {chunkKey(0, -1), chunkKey(-1, -1), chunkKey(0, 0)} \subseteq DOMAIN chunks
    /\ Opaque(getBlockWorld(TheWorld, -1, SEA_LEVEL, -1))
    /\ SeamFaces(TheWorld, <<0, SEA_LEVEL, -1>>, <<-1, 0, 0>>) = 1

---------------------------------------------------------------------------
(* Properties of the registry                                              *)

\* C11: after every load, unload and setBlock call each entry of the chunk
\* map is stored under the key of its own (cx, cz), so no coordinate has two
\* chunks; and a loadChunk call on a coordinate that is already loaded
\* changes nothing: the entry keeps its voxel data, edits included, no mesh
\* is rebuilt and the scene is the same.
C11_ReloadIsNoOp ==
    [][ /\ \A k \in DOMAIN chunks' :
              chunkKey(chunks'[k].cx, chunks'[k].cz) = k
        /\ (hist'.last[1] = "load" /\ ~hist'.last[3])
              => (chunks' = chunks /\ scene' = scene)
      ]_vars

\* loadChunk(0, 0) was just called on a loaded chunk (0, 0) that holds an
\* edited voxel
C11_EditedChunkReloaded ==
    /\ hist.last = <<"load", <<0, 0>>, FALSE>>
    /\ chunkKey(0, 0) \in DOMAIN chunks
    /\ DOMAIN chunks[chunkKey(0, 0)].set # {}

\* the world voxels read back: the recorded and the edited ones, and two
\* whose height is out of range
VoidProbes ==
    MeshWindow \cup EditSites \cup {<<0, -1, 0>>, <<-1, CHUNK_HEIGHT, -1>>}

\* C12: after every call, getBlockWorld reads AIR, not the sentinel, at every
\* probed voxel whose chunk is not loaded, whatever its height; and a
\* setBlockWorld call on a voxel whose chunk is not loaded leaves the chunk
\* map (no new entry, every voxel and every mesh as before) and the scene
\* unchanged.
C12_UnloadedReadsAirWriteIsNoOp ==
    [][ /\ \A v \in VoidProbes :
              KeyOf(v) \notin DOMAIN chunks'
                => getBlockWorld([chunks |-> chunks', scene |-> scene'],
                                 v[1], v[2], v[3]) = AIR
        /\ (hist'.last[1] = "setBlock" /\ KeyOf(hist'.last[2]) \notin DOMAIN chunks)
              => (chunks' = chunks /\ scene' = scene)
      ]_vars

\* setBlockWorld was just called on a voxel of an unloaded chunk while other
\* chunks, with meshes in the scene, are loaded
C12_WroteIntoUnloaded ==
    /\ hist.last[1] = "setBlock"
    /\ KeyOf(hist.last[2]) \notin DOMAIN chunks
    /\ DOMAIN chunks # {}
    /\ scene # {}

---------------------------------------------------------------------------
(* js/chunk.js: the data array itself                                      *)
(*                                                                         *)
(* The voxel store above names a voxel by its local coordinate.  Here the  *)
(* Uint8Array is kept by index, as the code keeps it: data maps the        *)
(* indices whose byte is not 0 to their byte.  probe is [data, last,       *)
(* writes]: the array of one new Chunk, the last call with its arguments   *)
(* (and, for getBlock, its result), and the number of setBlock calls.      *)

\* Chunk.index
index(x, y, z) == x + CHUNK_SIZE * (y + CHUNK_HEIGHT * z)

\* the length of data
DataLength == CHUNK_SIZE * CHUNK_HEIGHT * CHUNK_SIZE

\* what reading a typed array outside 0..length-1 gives (undefined); it is
\* no byte and not the sentinel
Undefined == -2

\* data[i]
ArrayRead(data, i) ==
    IF i \notin 0..(DataLength - 1) THEN Undefined
    ELSE IF i \in DOMAIN data THEN data[i]
    ELSE 0

\* data[i] = v: the byte stored is v modulo 256, and a write outside
\* 0..length-1 is dropped
ArrayWrite(data, i, v) ==
    IF i \notin 0..(DataLength - 1) THEN data
    ELSE IF v % 256 = 0 THEN [k \in DOMAIN data \ {i} |-> data[k]]
    ELSE [k \in DOMAIN data \cup {i} |-> IF k = i THEN v % 256 ELSE data[k]]

\* Chunk.getBlock on the array
Data_getBlock(data, x, y, z) ==
    IF x < 0 \/ x >= CHUNK_SIZE \/ y < 0 \/ y >= CHUNK_HEIGHT
         \/ z < 0 \/ z >= CHUNK_SIZE
    THEN -1
    ELSE ArrayRead(data, index(x, y, z))

\* a setBlock without the bounds test
Data_setBlockUnchecked(data, x, y, z, type) ==
    ArrayWrite(data, index(x, y, z), type)

\* Chunk.setBlock on the array
Data_setBlock(data, x, y, z, type) ==
    IF x < 0 \/ x >= CHUNK_SIZE \/ y < 0 \/ y >= CHUNK_HEIGHT
         \/ z < 0 \/ z >= CHUNK_SIZE
    THEN data
    ELSE ArrayWrite(data, index(x, y, z), type)

\* the local coordinates tried: on both sides of every bound
CellXs == {-1, 0, CHUNK_SIZE - 1, CHUNK_SIZE}
CellYs == {-1, 0, CHUNK_HEIGHT - 1, CHUNK_HEIGHT}
CellZs == {-1, 0, CHUNK_SIZE - 1, CHUNK_SIZE}

\* the block types written, and how many setBlock calls a run makes
CellTypes == {STONE, WATER}
MaxCellWrites == 2

InitCell ==
    /\ WorldInit
    /\ player = Idle
    /\ camera = Idle
    /\ noise = Idle
    /\ hist = HistInit
    /\ probe = [data |-> [k \in {} |-> 0], last |-> <<"new">>, writes |-> 0]

\* chunk.setBlock(x, y, z, type)
SetCell(x, y, z, type) ==
    /\ probe.writes < MaxCellWrites
    /\ probe' = [data |-> Data_setBlock(probe.data, x, y, z, type),
                 last |-> <<"setBlock", x, y, z, type>>,
                 writes |-> probe.writes + 1]
    /\ UNCHANGED <<chunks, scene, lastPC, player, camera, noise, hist>>

\* chunk.getBlock(x, y, z)
GetCell(x, y, z) ==
    /\ probe' = [probe EXCEPT
                   !.last = <<"getBlock", x, y, z,
                              Data_getBlock(probe.data, x, y, z)>>]
    /\ UNCHANGED <<chunks, scene, lastPC, player, camera, noise, hist>>

NextCell ==
    \/ \E x \in CellXs, y \in CellYs, z \in CellZs, type \in CellTypes :
          SetCell(x, y, z, type)
    \/ \E x \in CellXs, y \in CellYs, z \in CellZs : GetCell(x, y, z)

SpecCell == InitCell /\ [][NextCell]_vars

\* C13: the sentinel -1 is neither AIR nor any other block code; every
\* getBlock call with a local coordinate outside 0..15 x 0..63 x 0..15
\* returns it, and every getBlock call with a coordinate in range returns a
\* block code; and every setBlock call with a coordinate out of range leaves
\* the whole array as it was.
C13_OutOfRangeCell ==
    [][ /\ UNKNOWN \notin BLOCKS
        /\ probe'.last[1] = "getBlock" =>
              IF InRange(probe'.last[2], probe'.last[3], probe'.last[4])
              THEN probe'.last[5] \in BLOCKS
              ELSE probe'.last[5] = UNKNOWN
        /\ ( /\ probe'.last[1] = "setBlock"
             /\ ~InRange(probe'.last[2], probe'.last[3], probe'.last[4]) )
              => probe'.data = probe.data
      ]_vars

\* setBlock was just called with x = 16, whose index is that of the cell
\* (0, 1, 0), on an array that holds a written cell
C13_WroteBesideTheArray ==
    /\ probe.last = <<"setBlock", CHUNK_SIZE, 0, 0, STONE>>
    /\ probe.writes = 2
    /\ Data_getBlock(probe.data, 0, 0, 0) = WATER
    /\ Data_getBlock(probe.data, 0, 1, 0) = AIR

---------------------------------------------------------------------------
(* The voxels of a newly loaded chunk                                      *)
(*                                                                         *)
(* probe is [c, z]: the chunk coordinate loaded and the row of it read.    *)

\* the chunk coordinates loaded: -GenSpan..GenSpan in both directions
GenSpan == 1
GenChunks == ((-GenSpan)..GenSpan) \X ((-GenSpan)..GenSpan)

InitGen ==
    /\ WorldInit
    /\ player = Idle
    /\ camera = Idle
    /\ noise = Idle
    /\ hist = HistInit
    /\ probe \in [c : GenChunks, z : 0..(CHUNK_SIZE - 1)]

\* world.loadChunk on the probed coordinate
NextGen == Load(probe.c)

SpecGen == InitGen /\ [][NextGen]_vars

\* the block read at local (x, y, probe.z) of the probed chunk
GenRead(x, y) ==
    getBlockWorld(TheWorld, probe.c[1] * CHUNK_SIZE + x, y,
                  probe.c[2] * CHUNK_SIZE + probe.z)

\* C14: once loadChunk(cx, cz) was called, the chunk map holds a chunk for
\* (cx, cz) that carries this coordinate, and every voxel of the probed row
\* of it, at every x in 0..15 and y in 0..63, reads as one of the eight block
\* codes.
C14_LoadedChunkIsFilled ==
    hist.last[1] = "load" =>
        /\ chunkKey(probe.c[1], probe.c[2]) \in DOMAIN chunks
        /\ chunks[chunkKey(probe.c[1], probe.c[2])].cx = probe.c[1]
        /\ chunks[chunkKey(probe.c[1], probe.c[2])].cz = probe.c[2]
        /\ \A x \in 0..(CHUNK_SIZE - 1), y \in 0..(CHUNK_HEIGHT - 1) :
              GenRead(x, y) \in BLOCKS

\* a loaded row that holds sea, ground and a tree
C14_RowOfSeaAndTree ==
    /\ hist.last = <<"load", probe.c, TRUE>>
    /\ \A b \in {WATER, SAND, DIRT, STONE, WOOD, LEAVES} :
          \E x \in 0..(CHUNK_SIZE - 1), y \in 0..(CHUNK_HEIGHT - 1) :
              GenRead(x, y) = b

---------------------------------------------------------------------------
(* Loading again: the world under load, unload and setBlock, with the      *)
(* calls logged                                                            *)
(*                                                                         *)
(* hist.trail is here the log of the run: the calls made, in order.        *)

\* how many calls a run makes
MaxCalls == 4

\* the chunks loaded and unloaded and the voxels written: two chunks side by
\* side and one sea voxel in each, on their common border
RegenChunks == {<<-1, 0>>, <<0, 0>>}
RegenVoxels == {<<-1, SEA_LEVEL, 0>>, <<0, SEA_LEVEL, 0>>}
RegenTypes == {STONE}

\* world.loadChunk(cx, cz)
LoggedLoad(c) ==
    /\ Len(hist.trail) < MaxCalls
    /\ \E W \in {loadChunk(TheWorld, c[1], c[2])} :
        /\ chunks' = W.chunks
        /\ scene' = W.scene
        /\ hist' = [hist EXCEPT
                      !.trail = Append(@, <<"load", c>>),
                      !.last = <<"load", c, ~HasChunk(TheWorld, c[1], c[2])>>]
        /\ UNCHANGED <<lastPC, player, camera, noise, probe>>

\* world.unloadChunk(cx, cz)
LoggedUnload(c) ==
    /\ Len(hist.trail) < MaxCalls
    /\ \E W \in {unloadChunk(TheWorld, c[1], c[2])} :
        /\ chunks' = W.chunks
        /\ scene' = W.scene
        /\ hist' = [hist EXCEPT !.trail = Append(@, <<"unload", c>>),
                                !.last = <<"unload", c>>]
        /\ UNCHANGED <<lastPC, player, camera, noise, probe>>

\* world.setBlockWorld(wx, wy, wz, type)
LoggedSetBlock(v, type) ==
    /\ Len(hist.trail) < MaxCalls
    /\ \E W \in {setBlockWorld(TheWorld, v[1], v[2], v[3], type)} :
        /\ chunks' = W.chunks
        /\ scene' = W.scene
        /\ hist' = [last |-> <<"setBlock", v, type>>,
                    trail |-> Append(hist.trail, <<"setBlock", v, type>>),
                    edits |-> hist.edits + 1]
        /\ UNCHANGED <<lastPC, player, camera, noise, probe>>

NextRegen ==
    \/ \E c \in RegenChunks : LoggedLoad(c)
    \/ \E c \in RegenChunks : LoggedUnload(c)
    \/ \E v \in RegenVoxels, type \in RegenTypes : LoggedSetBlock(v, type)

SpecRegen == Init /\ [][NextRegen]_vars

\* the voxel data of the loaded chunk c is the generated terrain of c: no
\* written voxel, and the probed voxels read as generateChunk leaves them
FreshlyGenerated(c) ==
    /\ chunkKey(c[1], c[2]) \in DOMAIN chunks
    /\ chunks[chunkKey(c[1], c[2])].filled
    /\ DOMAIN chunks[chunkKey(c[1], c[2])].set = {}
    /\ \A v \in { u \in RegenVoxels \cup MeshWindow : KeyOf(u) = c } :
          getBlockWorld(TheWorld, v[1], v[2], v[3])
            = generateChunk(c[1], c[2], LocalOf(v[1]), v[2], LocalOf(v[3]))

\* C15: right after a loadChunk(cx, cz) call that found no chunk there or
\* that follows unloadChunk(cx, cz), the voxel data of the chunk is the
\* generated terrain of (cx, cz), the same whatever calls were made before:
\* whichever chunks were loaded first, and whatever was written to the chunk
\* before it was unloaded.
C15_LoadRegenerates ==
    ( /\ hist.last[1] = "load"
      /\ \/ hist.last[3]
         \/ /\ Len(hist.trail) >= 2
            /\ hist.trail[Len(hist.trail) - 1] = <<"unload", hist.last[2]>> )
    => FreshlyGenerated(hist.last[2])

\* chunk (0, 0) was loaded, its sea voxel (0, SEA_LEVEL, 0) overwritten with
\* STONE, unloaded and loaded again: the voxel reads WATER
C15_EditedUnloadedReloaded ==
    /\ hist.trail = << <<"load", <<0, 0>>>>,
                       <<"setBlock", <<0, SEA_LEVEL, 0>>, STONE>>,
                       <<"unload", <<0, 0>>>>, <<"load", <<0, 0>>>> >>
    /\ getBlockWorld(TheWorld, 0, SEA_LEVEL, 0) = WATER

---------------------------------------------------------------------------
(* The surface height for every pair of noise values                       *)
(*                                                                         *)
(* probe is [base, detail, height]: the two values octaves() returns to    *)
(* one getTerrainHeight call, in hundredths, and the heights returned so    *)
(* far (<<>> before the call, <<height>> after it).                        *)

\* the noise values tried: -1 to 1 in steps of 1 / NoiseGrid
NoiseGrid == 40
NoiseValues == { (100 * k) \div NoiseGrid : k \in (-NoiseGrid)..NoiseGrid }

InitHeight ==
    /\ WorldInit
    /\ player = Idle
    /\ camera = Idle
    /\ noise = Idle
    /\ hist = HistInit
    /\ probe \in [base : NoiseValues, detail : NoiseValues, height : {<<>>}]

\* getTerrainHeight(wx, wz) at a column where the noise has the probed values
MeasureHeight ==
    /\ probe.height = <<>>
    /\ probe' = [probe EXCEPT !.height = <<HeightOf(probe.base, probe.detail)>>]
    /\ UNCHANGED <<chunks, scene, lastPC, player, camera, noise, hist>>

NextHeight == MeasureHeight

SpecHeight == InitHeight /\ [][NextHeight]_vars

\* C16: for every pair of values in [-1, 1] the two octaves() calls return,
\* getTerrainHeight returns an integer from 1 to CHUNK_HEIGHT - 10 = 54.
C16_HeightInRange ==
    probe.height # <<>> =>
        /\ probe.height[1] \in 1..(CHUNK_HEIGHT - 10)
        /\ CHUNK_HEIGHT - 10 = 54

\* both noise values are -1: the sum 12 - 20 - 5 = -13 was raised to 1
C16_LowestIsClamped ==
    /\ probe.base = -100
    /\ probe.detail = -100
    /\ probe.height = <<1>>

---------------------------------------------------------------------------
(* Properties of the streaming scan                                        *)

\* C17: an update call with the observer in the chunk the last scan was
\* centred on changes neither the chunk map nor the scene nor the remembered
\* centre, whatever was loaded, unloaded or written since that scan; any
\* other update call, the first one included, makes the observer's chunk the
\* remembered centre, and the first one loads the whole square around it.
C17_SameChunkIsIdle ==
    [][ hist'.last[1] = "update" =>
          IF lastPC = <<ChunkOf(hist'.last[3][1]), ChunkOf(hist'.last[3][2])>>
          THEN UNCHANGED <<chunks, scene, lastPC>>
          ELSE /\ lastPC' = <<ChunkOf(hist'.last[3][1]),
                              ChunkOf(hist'.last[3][2])>>
               /\ lastPC = <<>> =>
                     \A dx \in -RENDER_DISTANCE..RENDER_DISTANCE,
                        dz \in -RENDER_DISTANCE..RENDER_DISTANCE :
                        chunkKey(lastPC'[1] + dx, lastPC'[2] + dz)
                          \in DOMAIN chunks'
      ]_vars

\* update was just called with the observer still in chunk (0, 0), after
\* chunk (0, 0) itself was unloaded by a direct call: it stays unloaded
C17_IdleOverUnloaded ==
    /\ hist.last = <<"update", FALSE, <<8, 8>>>>
    /\ lastPC = <<0, 0>>
    /\ chunkKey(0, 0) \notin DOMAIN chunks
    /\ chunkKey(1, 0) \in DOMAIN chunks

---------------------------------------------------------------------------
(* Meshing: two chunks side by side under load, setBlock and rebuild, with *)
(* the calls logged in hist.trail                                          *)

\* the chunks loaded and rebuilt, and the writes made: STONE and AIR into the
\* sea voxel of chunk (0, 0) on the border, WATER and STONE into the top
\* voxel of its column
MeshChunks == {<<-1, 0>>, <<0, 0>>}
MeshEdits ==
    { <<<<0, SEA_LEVEL, 0>>, STONE>>, <<<<0, SEA_LEVEL, 0>>, AIR>>,
      <<<<0, CHUNK_HEIGHT - 1, 0>>, WATER>>,
      <<<<0, CHUNK_HEIGHT - 1, 0>>, STONE>> }

\* world._rebuildChunk(cx, cz, neighborGetter)
LoggedRebuild(c) ==
    /\ Len(hist.trail) < MaxCalls
    /\ \E W \in {rebuildChunk(TheWorld, c[1], c[2])} :
        /\ chunks' = W.chunks
        /\ scene' = W.scene
        /\ hist' = [hist EXCEPT !.trail = Append(@, <<"rebuild", c>>),
                                !.last = <<"rebuild", c>>]
        /\ UNCHANGED <<lastPC, player, camera, noise, probe>>

NextMesh ==
    \/ \E c \in MeshChunks : LoggedLoad(c)
    \/ \E c \in MeshChunks : LoggedRebuild(c)
    \/ \E e \in MeshEdits : LoggedSetBlock(e[1], e[2])

SpecMesh == Init /\ [][NextMesh]_vars

\* the loaded chunks whose meshes the call logged as call built, from the
\* voxel data as it is after the call
BuiltBy(call, chs) ==
    DOMAIN chs \cap
      ( IF call[1] = "load" THEN (IF call[3] THEN {call[2]} ELSE {})
        ELSE IF call[1] = "rebuild" THEN {call[2]}
        ELSE IF call[1] = "setBlock" /\ KeyOf(call[2]) \in DOMAIN chs
        THEN { RebuildKeys(ChunkOf(call[2][1]), ChunkOf(call[2][3]),
                           LocalOf(call[2][1]), LocalOf(call[2][3]))[i] :
                 i \in 1..Len(RebuildKeys(ChunkOf(call[2][1]),
                                          ChunkOf(call[2][3]),
                                          LocalOf(call[2][1]),
                                          LocalOf(call[2][3]))) }
        ELSE {} )

\* C18: a rebuild of a chunk that directly follows a call that built the
\* same chunk's mesh (its load, a rebuild, or a setBlock that rebuilt it),
\* with no voxel changed in between, leaves the same faces in the opaque and
\* in the water mesh, and a mesh exactly where there was one: the vertex and
\* triangle counts, four and two per face, are the same.
C18_RebuildIsIdempotent ==
    [][ ( /\ hist'.last[1] = "rebuild"
          /\ hist'.last[2] \in BuiltBy(hist.last, chunks) )
        => /\ chunks'[hist'.last[2]].mesh.faces
                = chunks[hist'.last[2]].mesh.faces
           /\ chunks'[hist'.last[2]].waterMesh.faces
                = chunks[hist'.last[2]].waterMesh.faces
           /\ (chunks'[hist'.last[2]].mesh = NoMesh)
                = (chunks[hist'.last[2]].mesh = NoMesh)
           /\ (chunks'[hist'.last[2]].waterMesh = NoMesh)
                = (chunks[hist'.last[2]].waterMesh = NoMesh)
      ]_vars

\* chunk (0, 0) was loaded and then rebuilt twice; both meshes hold faces
C18_RebuiltTwice ==
    /\ hist.trail = << <<"load", <<0, 0>>>>, <<"rebuild", <<0, 0>>>>,
                       <<"rebuild", <<0, 0>>>> >>
    /\ chunks[chunkKey(0, 0)].mesh.faces # {}
    /\ chunks[chunkKey(0, 0)].waterMesh.faces # {}

\* the recorded faces <<x, y, z, f>> of the chunk under key: those of its
\* recorded voxels
RecordedFaces(key) ==
    { <<v[1], v[2], v[3], f>> :
        v \in LocalWindow(chunks[key]) \cup DOMAIN chunks[key].set,
        f \in FaceIds }

\* the block of the voxel of face t of the chunk under key, and the block
\* next to it through the face, as buildMesh resolves it
FaceBlock(key, t) == Chunk_getBlock(chunks[key], t[1], t[2], t[3])
FaceNeighbor(key, t) ==
    NeighborBlock(TheWorld, chunks[key], t[1], t[2], t[3], t[4])

\* C19: in every mesh just built, each recorded face of a voxel holding a
\* block other than AIR and WATER is in the opaque mesh exactly when the
\* voxel next to it through the face is AIR, WATER or the sentinel -1, is
\* missing from it exactly when that voxel holds a non-transparent block,
\* and is never in the water mesh.
C19_OpaqueFaceRule ==
    \A key \in BuiltBy(hist.last, chunks) :
        \A t \in RecordedFaces(key) :
            FaceBlock(key, t) \in BLOCKS \ {AIR, WATER} =>
                /\ (t \in chunks[key].mesh.faces)
                     <=> (FaceNeighbor(key, t) \in {AIR, WATER, UNKNOWN})
                /\ (t \notin chunks[key].mesh.faces)
                     <=> (FaceNeighbor(key, t) \in BLOCKS \ TRANSPARENT)
                /\ t \notin chunks[key].waterMesh.faces

\* both chunks loaded and STONE written into the border voxel
\* (0, SEA_LEVEL, 0): its face toward the WATER across the border and the
\* bedrock voxel's face toward the sentinel below are in the opaque mesh,
\* the bedrock voxel's face toward the STONE above it is not
C19_StoneBesideSea ==
    /\ hist.trail = << <<"load", <<-1, 0>>>>, <<"load", <<0, 0>>>>,
                       <<"setBlock", <<0, SEA_LEVEL, 0>>, STONE>> >>
    /\ getBlockWorld(TheWorld, -1, SEA_LEVEL, 0) = WATER
    /\ <<0, SEA_LEVEL, 0, FaceToward(<<-1, 0, 0>>)>>
         \in chunks[chunkKey(0, 0)].mesh.faces
    /\ <<0, 0, 0, FaceToward(<<0, -1, 0>>)>> \in chunks[chunkKey(0, 0)].mesh.faces
    /\ <<0, 0, 0, FaceToward(<<0, 1, 0>>)>>
         \notin chunks[chunkKey(0, 0)].mesh.faces

\* C20: in every mesh just built, a recorded face of a WATER voxel is in the
\* water mesh only if the voxel next to it through the face is AIR: there is
\* none toward WATER, in the same chunk or in the loaded chunk across the
\* border, none toward an opaque block and none toward the sentinel -1; and
\* no face of a WATER voxel is in the opaque mesh.
C20_WaterFaceRule ==
    \A key \in BuiltBy(hist.last, chunks) :
        \A t \in RecordedFaces(key) :
            FaceBlock(key, t) = WATER =>
                /\ t \in chunks[key].waterMesh.faces
                     => FaceNeighbor(key, t) = AIR
                /\ FaceNeighbor(key, t) \in (BLOCKS \ {AIR}) \cup {UNKNOWN}
                     => t \notin chunks[key].waterMesh.faces
                /\ t \notin chunks[key].mesh.faces

\* both chunks loaded, WATER written into the top voxel of chunk (0, 0): the
\* sea voxel (0, SEA_LEVEL, 0) has a face toward the AIR above it and none
\* toward the WATER across the border, and the top voxel has none toward the
\* sentinel above it
C20_SeaAcrossBorder ==
    /\ hist.trail = << <<"load", <<-1, 0>>>>, <<"load", <<0, 0>>>>,
                       <<"setBlock", <<0, CHUNK_HEIGHT - 1, 0>>, WATER>> >>
    /\ getBlockWorld(TheWorld, -1, SEA_LEVEL, 0) = WATER
    /\ getBlockWorld(TheWorld, 0, SEA_LEVEL, 0) = WATER
    /\ <<0, SEA_LEVEL, 0, FaceToward(<<0, 1, 0>>)>>
         \in chunks[chunkKey(0, 0)].waterMesh.faces
    /\ <<0, SEA_LEVEL, 0, FaceToward(<<-1, 0, 0>>)>>
         \notin chunks[chunkKey(0, 0)].waterMesh.faces
    /\ <<0, CHUNK_HEIGHT - 1, 0, FaceToward(<<0, 1, 0>>)>>
         \notin chunks[chunkKey(0, 0)].waterMesh.faces
    /\ <<0, CHUNK_HEIGHT - 1, 0, FaceToward(<<1, 0, 0>>)>>
         \in chunks[chunkKey(0, 0)].waterMesh.faces

---------------------------------------------------------------------------
(* Water at the edge of the loaded world: the two-chunk world of the       *)
(* meshing section, while one of the chunks is not loaded.                 *)

\* the chunk that holds the voxel next to local voxel t[1..3] of the chunk
\* under key through face t[4]
KeyAcross(key, t) ==
    chunkKey(ChunkOf(chunks[key].cx * CHUNK_SIZE + t[1] + FACES[t[4]].dir[1]),
             ChunkOf(chunks[key].cz * CHUNK_SIZE + t[3] + FACES[t[4]].dir[3]))

\* C21: in every mesh just built, a WATER voxel on the chunk's border has no
\* face in the water mesh toward a voxel of a chunk that is not loaded.
C21_NoWaterFaceTowardUnloaded ==
    \A key \in BuiltBy(hist.last, chunks) :
        \A t \in RecordedFaces(key) :
            ( /\ FaceBlock(key, t) = WATER
              /\ KeyAcross(key, t) \notin DOMAIN chunks )
            => t \notin chunks[key].waterMesh.faces

---------------------------------------------------------------------------
(* The terrain pass on one column: the inner loop of generateChunk's first *)
(* pass writes the column's voxels from y = 0 upward into the data array.  *)

\* the surface heights getTerrainHeight can return, and the local columns
\* filled: the first and the last of the chunk
ColumnHeights == 1..(CHUNK_HEIGHT - 10)
ColumnSites == {<<0, 0>>, <<CHUNK_SIZE - 1, CHUNK_SIZE - 1>>}

InitColumn ==
    /\ WorldInit
    /\ player = Idle
    /\ camera = Idle
    /\ noise = Idle
    /\ hist = HistInit
    /\ \E terrainH \in ColumnHeights, c \in ColumnSites :
          probe = [terrainH |-> terrainH, x |-> c[1], z |-> c[2], y |-> 0,
                   data |-> [k \in {} |-> 0]]

\* one pass of the loop over y: chunk.setBlock(x, y, z, block)
FillVoxel ==
    /\ probe.y < CHUNK_HEIGHT
    /\ probe' = [probe EXCEPT
                   !.data = Data_setBlock(@, probe.x, probe.y, probe.z,
                                          TerrainPass(probe.terrainH, probe.y)),
                   !.y = @ + 1]
    /\ UNCHANGED <<chunks, scene, lastPC, player, camera, noise, hist>>

NextColumn == FillVoxel

SpecColumn == InitColumn /\ [][NextColumn]_vars

\* the block read back at height y of the column being filled
ColumnRead(y) == Data_getBlock(probe.data, probe.x, y, probe.z)

\* C22: at every height y the terrain pass has written in a column of
\* surface height h, the voxel is STONE if y = 0 or y < h - 4, DIRT if
\* h - 4 <= y < h and y > 0, SAND at y = h when h <= SEA_LEVEL + 1 and GRASS
\* at y = h otherwise, WATER if h < y <= SEA_LEVEL, and AIR above; so no AIR
\* voxel lies at or below the surface, and WATER occurs only above the
\* surface at or below sea level.
C22_TerrainPassLayers ==
    \A y \in 0..(probe.y - 1) :
        LET h == probe.terrainH
            b == ColumnRead(y)
        IN  /\ (y = 0 \/ y < h - 4) => b = STONE
            /\ (h - 4 <= y /\ y < h /\ y > 0) => b = DIRT
            /\ (y = h /\ h <= SEA_LEVEL + 1) => b = SAND
            /\ (y = h /\ h > SEA_LEVEL + 1) => b = GRASS
            /\ (h < y /\ y <= SEA_LEVEL) => b = WATER
            /\ (y > h /\ y > SEA_LEVEL) => b = AIR
            /\ b = AIR => y > h
            /\ b = WATER => (h < y /\ y <= SEA_LEVEL)

\* the last column of the chunk, of surface height 10, filled to the top:
\* stone, four of dirt, sand, two of water, air
C22_SunkenColumnFilled ==
    /\ probe.y = CHUNK_HEIGHT
    /\ probe.terrainH = 10
    /\ probe.x = CHUNK_SIZE - 1
    /\ [y \in 0..13 |-> ColumnRead(y)]
         = [y \in 0..13 |->
              IF y < 6 THEN STONE ELSE IF y < 10 THEN DIRT
              ELSE IF y = 10 THEN SAND ELSE IF y < 13 THEN WATER ELSE AIR]
    /\ \A y \in 13..(CHUNK_HEIGHT - 1) : ColumnRead(y) = AIR

---------------------------------------------------------------------------
(* Falling onto the block, frame by frame: the drop specification again.   *)

\* the voxels the collision probes of the three axes fall in
ProbedVoxels(P) ==
    UNION { { ProbeVoxel(P, CollideOffsets(axis)[i]) :
                i \in 1..Len(CollideOffsets(axis)) } : axis \in 1..3 }

\* C23: with frames of at most 0.05 s the player never passes through a
\* solid voxel.  The player starts clear of the block and straight above
\* it, so after every frame its feet are not below the top of the block
\* that was beneath them, and none of its collision probe points lies in a
\* solid voxel.
C23_NeverThroughTheBlock ==
    /\ player.pos[2] >= (DropBlock[2] + 1) * POS
    /\ \A v \in ProbedVoxels(player) :
          ~Solid(getBlockWorld(TheWorld, v[1], v[2], v[3]))

---------------------------------------------------------------------------
(* collideAxis on its own: the one-block world, the player put beside, on, *)
(* under and into the block with a velocity of either sign on each axis,   *)
(* and calls of collideAxis for the three axes.                            *)

CollideBlock == <<8, 4, 8>>

\* positions of the feet centre, in millionths: clear of the block, touching
\* it and overlapping it on each axis
CollideXs == {7700000, 7900000, 8500000, 9100000, 9300000}
CollideYs == {2000000, 2500000, 3000000, 4500000, 5500000}
CollideZs == {7900000, 8500000, 9300000}
CollideSpeeds == {-2 * VEL, 0, 2 * VEL}

InitCollide ==
    /\ chunks = OneBlockWorld(CollideBlock, STONE).chunks
    /\ scene = {}
    /\ lastPC = <<>>
    /\ \E x \in CollideXs, y \in CollideYs, z \in CollideZs,
          vx \in CollideSpeeds, vy \in CollideSpeeds, vz \in CollideSpeeds,
          g \in BOOLEAN :
          player = [NewPlayer EXCEPT !.pos = <<x, y, z>>,
                                     !.vel = <<vx, vy, vz>>,
                                     !.onGround = g]
    /\ camera = NewCamera
    /\ noise = Idle
    /\ probe = Idle
    /\ hist = HistInit

\* this.collideAxis(axis)
Collide(axis) ==
    /\ player' = collideAxis(player, TheWorld, axis)
    /\ hist' = [hist EXCEPT !.last = <<"collide", axis>>]
    /\ UNCHANGED <<chunks, scene, lastPC, camera, noise, probe>>

NextCollide == \E axis \in 1..3 : Collide(axis)

SpecCollide == InitCollide /\ [][NextCollide]_vars

\* the indices of the probes of axis that lie in a solid voxel
SolidProbes(P, axis) ==
    { i \in 1..Len(CollideOffsets(axis)) :
        \E v \in {ProbeVoxel(P, CollideOffsets(axis)[i])} :
           getBlockWorld(TheWorld, v[1], v[2], v[3])
             \in BLOCKS \ {AIR, WATER} }

\* the response to the first probe, at offset o in voxel b, that lies in a
\* solid voxel
C24_Resolved(axis, o, b) ==
    /\ IF axis = 2
       THEN IF player.vel[2] < 0
            THEN player'.pos[2] = (b[2] + 1) * POS /\ player'.onGround
            ELSE player'.pos[2] + PLAYER_HEIGHT = b[2] * POS
       ELSE player'.pos[axis] + o[axis]
              = IF o[axis] > 0 THEN b[axis] * POS ELSE (b[axis] + 1) * POS
    /\ player'.vel[axis] = 0
    /\ \A a \in (1..3) \ {axis} :
          player'.pos[a] = player.pos[a] /\ player'.vel[a] = player.vel[a]

\* C24: every collideAxis call with a probe in a solid voxel puts the
\* position on that axis at the boundary of the voxel of the first such
\* probe (feet on its top when moving down, head at its underside otherwise,
\* the probed side at its near face on x and z) and sets that axis's
\* velocity to zero, leaving the other two axes' position and velocity as
\* they were; on the vertical axis a collision while moving downward sets
\* grounded; and a vertical call without collision and with non-zero
\* vertical velocity clears grounded, position and velocity staying as
\* they were.
C24_CollideAxisResponse ==
    [][ hist'.last[1] = "collide" =>
          \E axis \in {hist'.last[2]} :
            IF SolidProbes(player, axis) # {}
            THEN \E i \in {Least(SolidProbes(player, axis))} :
                   C24_Resolved(axis, CollideOffsets(axis)[i],
                                ProbeVoxel(player, CollideOffsets(axis)[i]))
            ELSE /\ player'.pos = player.pos
                 /\ player'.vel = player.vel
                 /\ (axis = 2 /\ player.vel[2] # 0) => ~player'.onGround
      ]_vars

\* a grounded landing: the feet were in the block, moving down, and
\* collideAxis('y') has put them on its top, where no run starts
C24_LandedOnTop ==
    /\ hist.last = <<"collide", 2>>
    /\ player.pos = <<8500000, (CollideBlock[2] + 1) * POS, 8500000>>
    /\ player.vel = <<2 * VEL, 0, -2 * VEL>>
    /\ player.onGround

---------------------------------------------------------------------------
(* Jumping on the block: the one-block world, the player released half a   *)
(* block above the stone, the Space and W keys pressed and released        *)
(* between frames.                                                         *)

JumpKeys == {"Space", "KeyW"}

\* the frame time of these runs, in milliseconds: the cap of main.js
JumpDts == {50}

InitJump ==
    /\ chunks = OneBlockWorld(DropBlock, STONE).chunks
    /\ scene = {}
    /\ lastPC = <<>>
    /\ player = [NewPlayer EXCEPT
                   !.pos = <<DropBlock[1] * POS + POS \div 2,
                             (DropBlock[2] + 1) * POS + POS \div 2,
                             DropBlock[3] * POS + POS \div 2>>]
    /\ camera = NewCamera
    /\ noise = Idle
    /\ probe = Idle
    /\ hist = HistInit

\* the keydown handler
KeyDown(code) ==
    /\ code \notin player.keys
    /\ player' = [player EXCEPT !.keys = @ \cup {code}]
    /\ hist' = [hist EXCEPT !.last = <<"keydown", code>>]
    /\ UNCHANGED <<chunks, scene, lastPC, camera, noise, probe>>

\* the keyup handler
KeyUp(code) ==
    /\ code \in player.keys
    /\ player' = [player EXCEPT !.keys = @ \ {code}]
    /\ hist' = [hist EXCEPT !.last = <<"keyup", code>>]
    /\ UNCHANGED <<chunks, scene, lastPC, camera, noise, probe>>

NextJump ==
    \/ \E dt \in JumpDts : Tick(dt)
    \/ \E code \in JumpKeys : KeyDown(code)
    \/ \E code \in JumpKeys : KeyUp(code)

SpecJump == InitJump /\ [][NextJump]_vars

\* C25: in every frame that starts outside water, the vertical velocity is
\* set to JUMP_FORCE (and then pulled by gravity for the frame) only if the
\* player was grounded and Space was held; and a player that was not
\* grounded does not gain upward velocity in the frame, whatever keys are
\* held.
C25_JumpOnlyFromGround ==
    [][ ( /\ hist'.last[1] = "update"
          /\ ~isInWater(player, TheWorld) )
        => /\ player'.vel[2] = JUMP_FORCE * VEL + GRAVITY * hist'.last[2]
                => (player.onGround /\ "Space" \in player.keys)
           /\ ~player.onGround
                => ~(player'.vel[2] > 0 /\ player'.vel[2] > player.vel[2])
      ]_vars

\* after a jump from the block: Space still held, the player not grounded,
\* falling, more than a block above the stone's top
C25_FallingWithSpaceHeld ==
    /\ hist.last[1] = "update"
    /\ "Space" \in player.keys
    /\ ~player.onGround
    /\ player.vel[2] < 0
    /\ player.pos[2] > (DropBlock[2] + 2) * POS

---------------------------------------------------------------------------
(* Aiming at water: the aiming specification with the isolated block a     *)
(* WATER block.                                                            *)

InitAimWater ==
    /\ chunks = OneBlockWorld(AimBlock, WATER).chunks
    /\ scene = {}
    /\ lastPC = <<>>
    /\ \E q \in 0..3, d \in AimDistances :
          /\ player = [NewPlayer EXCEPT !.pos = AimStand(q, d)]
          /\ camera = updateCamera(player)
    /\ noise = Idle
    /\ probe = Idle
    /\ hist = HistInit

SpecAimWater == InitAimWater /\ [][NextAim]_vars

\* C26: whenever the raycast from the player's camera reports a hit, the
\* hit voxel holds a solid block: neither AIR nor WATER nor the sentinel.
C26_HitIsSolid ==
    \E r \in {raycast(player, camera, TheWorld)} :
        r.hit # <<>> =>
            getBlockWorld(TheWorld, r.hit[1], r.hit[2], r.hit[3])
              \in BLOCKS \ {AIR, WATER}

---------------------------------------------------------------------------
(* The loop of raycast, pass by pass: the one-block world of the aiming    *)
(* section, a ray from a chosen camera position in a chosen direction, one *)
(* step per pass of the while loop.                                        *)

\* camera positions, in millionths: in the middle, on a face and on a corner
\* of a voxel
RayOrigins ==
    { <<x, y, z>> : x \in {6500000, 8500000}, y \in {18500000, 20500000},
                    z \in {6500000, 11500000} }
      \cup { <<6000000, 18000000, 6000000>>, <<8500000, 20000000, 11000000>>,
             <<9500000, 22500000, 10500000>>, <<9700000, 22900000, 10300000>> }

\* directions: level along the axes, and oblique ones of whole length
RayDirs ==
    { <<0, 0, -1>>, <<1, 0, 0>>, <<0, 0, 1>>, <<-1, 0, 0>>,
      <<1, 2, 2>>, <<2, 2, 1>>, <<2, 1, 2>>, <<-1, -2, -2>>, <<2, -1, -2>>,
      <<3, 0, -4>>, <<4, 0, 3>>, <<-3, 4, 0>>, <<2, 3, 6>>, <<-6, -2, -3>> }

InitRay ==
    /\ chunks = OneBlockWorld(AimBlock, STONE).chunks
    /\ scene = {}
    /\ lastPC = <<>>
    /\ player = Idle
    /\ camera = Idle
    /\ noise = Idle
    /\ hist = HistInit
    /\ \E p \in RayOrigins, d \in RayDirs :
          probe = [p |-> p, d |-> d,
                   i |-> <<FloorBlock(p[1]), FloorBlock(p[2]),
                           FloorBlock(p[3])>>,
                   last |-> <<FloorBlock(p[1]), FloorBlock(p[2]),
                              FloorBlock(p[3])>>,
                   t |-> <<TMax0(p, d, 1), TMax0(p, d, 2), TMax0(p, d, 3)>>,
                   steps |-> 0, running |-> TRUE, result |-> NoTarget]

\* one pass of the while loop: the step, and the test of the entered voxel
RayLoopStep ==
    /\ probe.running
    /\ Min(probe.t[1], Min(probe.t[2], probe.t[3])) < REACH * POS
    /\ \E n \in {RayNext(probe.d, probe.i, probe.t, StepAxis(probe.t))} :
          probe' = [probe EXCEPT
                      !.last = n.last, !.i = n.i, !.t = n.t, !.steps = @ + 1,
                      !.running =
                          ~RayHits(getBlockWorld(TheWorld, n.i[1], n.i[2],
                                                 n.i[3])),
                      !.result =
                          IF RayHits(getBlockWorld(TheWorld, n.i[1], n.i[2],
                                                   n.i[3]))
                          THEN [hit |-> n.i, before |-> n.last]
                          ELSE @]
    /\ UNCHANGED <<chunks, scene, lastPC, player, camera, noise, hist>>

\* the loop condition fails: return null
RayLoopEnd ==
    /\ probe.running
    /\ Min(probe.t[1], Min(probe.t[2], probe.t[3])) >= REACH * POS
    /\ probe' = [probe EXCEPT !.running = FALSE]
    /\ UNCHANGED <<chunks, scene, lastPC, player, camera, noise, hist>>

NextRay == RayLoopStep \/ RayLoopEnd

SpecRay == InitRay /\ [][NextRay]_vars

\* voxels u and v share a face
FaceAdjacent(u, v) ==
    Abs(u[1] - v[1]) + Abs(u[2] - v[2]) + Abs(u[3] - v[3]) = 1

\* the coordinate on axis a of the point of the ray at distance t
RayPoint(p, d, a, t) ==
    p[a] + (IF d[a] < 0 THEN -1 ELSE 1) * ((t * Abs(d[a])) \div DirLength(d))

\* tMax of axis a is the distance at which the ray meets the next integer
\* boundary of voxel i on that axis, to within the cut quotients
MeetsBoundary(p, d, i, t, a) ==
    d[a] # 0 =>
        Abs(RayPoint(p, d, a, t[a])
              - (i[a] + (IF d[a] > 0 THEN 1 ELSE 0)) * POS) <= 3 * REACH + 2

\* C27: every pass of the loop moves exactly one voxel index by one, in the
\* direction of the ray, on an axis whose tMax, the distance to the next
\* integer boundary, is the smallest of the three (ties: one of the
\* smallest), and that distance is below REACH; so consecutive voxels share
\* a face, the before voxel of a hit shares a face with the hit voxel, and
\* the loop ends within 3 * REACH passes with the result raycast returns.
C27_TraversalIsExact ==
    [][ /\ probe'.steps = probe.steps + 1 =>
             \E a \in 1..3 :
                /\ probe'.i = [probe.i EXCEPT ![a] = @ + RayStep(probe.d[a])]
                /\ \A b \in 1..3 : probe.t[a] <= probe.t[b]
                /\ probe.t[a] < REACH * POS
                /\ MeetsBoundary(probe.p, probe.d, probe.i, probe.t, a)
                /\ probe'.last = probe.i
                /\ FaceAdjacent(probe.i, probe'.i)
        /\ \A a \in 1..3 :
              MeetsBoundary(probe.p, probe.d, probe'.i, probe'.t, a)
        /\ probe'.result.hit # <<>> =>
              FaceAdjacent(probe'.result.before, probe'.result.hit)
        /\ probe'.steps <= 3 * REACH
        /\ ~probe'.running =>
              probe'.result = RayFrom(TheWorld, probe.p, probe.d)
      ]_vars

\* an oblique ray from the middle of a voxel, where the distances to the
\* next boundaries on y and z tie twice on the way, has reached the stone
\* through its top face in five passes
C27_ObliqueHit ==
    /\ probe.d = <<-1, -2, -2>>
    /\ probe.p = <<9500000, 22500000, 10500000>>
    /\ probe.steps = 5
    /\ probe.result = [hit |-> AimBlock,
                       before |-> <<AimBlock[1], AimBlock[2] + 1, AimBlock[3]>>]

---------------------------------------------------------------------------
(* The game loop: main.js loads the chunks around the spawn, spawns the    *)
(* player, and then runs frames of player.update(dt) followed by           *)
(* world.update at the player's position; keys go down and up between      *)
(* frames.                                                                 *)

\* the spawn chunk and how far around it main.js loads
SPAWN_CX == 0
SPAWN_CZ == 0
SPAWN_RADIUS == 2

\* how many frames a run makes, the frame time in milliseconds (the cap of
\* main.js) and the keys used
MaxFrames == 6
LoopDts == {50}
LoopKeys == {"KeyW", "KeyA", "KeyD"}

\* a preload of the spawn chunk alone
PreloadKeysSpawnOnly(cx, cz) == << <<cx, cz>> >>

\* the chunk coordinates of main.js's two loops, in the order of the calls
PreloadKeys(cx, cz) ==
    [n \in 1..((2 * SPAWN_RADIUS + 1) * (2 * SPAWN_RADIUS + 1)) |->
       <<cx + ((n - 1) \div (2 * SPAWN_RADIUS + 1)) - SPAWN_RADIUS,
         cz + ((n - 1) % (2 * SPAWN_RADIUS + 1)) - SPAWN_RADIUS>>]

\* world.loadChunk for the coordinates keys[n], keys[n + 1], ... in turn
RECURSIVE LoadEach(_, _, _)
LoadEach(W, keys, n) ==
    IF n > Len(keys) THEN W
    ELSE Only({ LoadEach(w, keys, n + 1) :
                  w \in {loadChunk(W, keys[n][1], keys[n][2])} })

\* the world after the loads of main.js
SpawnWorld ==
    LoadEach([chunks |-> [k \in {} |-> NewChunk(0, 0)], scene |-> {}],
             PreloadKeys(SPAWN_CX, SPAWN_CZ), 1)

\* world.getSurfaceHeight(wx, wz)
getSurfaceHeight(wx, wz) == getTerrainHeight(wx, wz)

\* player.spawn()
spawn(P) == [P EXCEPT !.pos = <<0, (getSurfaceHeight(0, 0) + 2) * POS, 0>>]

InitLoop ==
    /\ \E W \in {SpawnWorld} : chunks = W.chunks /\ scene = W.scene
    /\ lastPC = <<>>
    /\ player = spawn(NewPlayer)
    /\ camera = NewCamera
    /\ noise = Idle
    /\ probe = Idle
    /\ hist = HistInit

\* gameLoop(): player.update(dt), then world.update(player.pos.x, player.pos.z)
GameLoop(dt) ==
    /\ Len(hist.trail) < MaxFrames
    /\ \E r \in {PlayerUpdate(player, TheWorld, dt)} :
        /\ player' = r.player
        /\ camera' = r.camera
        /\ \E u \in {update(TheWorld, lastPC, r.player.pos[1],
                            r.player.pos[3])} :
              /\ chunks' = u.W.chunks
              /\ scene' = u.W.scene
              /\ lastPC' = u.last
    /\ hist' = [hist EXCEPT !.trail = Append(@, <<"frame", dt>>),
                            !.last = <<"frame", dt>>]
    /\ UNCHANGED <<noise, probe>>

NextLoop ==
    \/ \E dt \in LoopDts : GameLoop(dt)
    \/ \E code \in LoopKeys : KeyDown(code)
    \/ \E code \in LoopKeys : KeyUp(code)

SpecLoop == InitLoop /\ [][NextLoop]_vars

\* the chunk coordinate of a position coordinate in millionths
ChunkAt(a) == FloorDiv(a, CHUNK_SIZE * POS)

\* the chunk of the player at pos and the eight around it are among chs
NearLoaded(pos, chs) ==
    \A dx \in -1..1, dz \in -1..1 :
        chunkKey(ChunkAt(pos[1]) + dx, ChunkAt(pos[3]) + dz) \in DOMAIN chs

\* every chunk that holds a column within reach r of a point of the box
\* between the positions from and to is among chs
SweepLoaded(from, to, r, chs) ==
    \A cx \in ChunkAt(Min(from[1], to[1]) - r)..ChunkAt(Max(from[1], to[1]) + r),
       cz \in ChunkAt(Min(from[3], to[3]) - r)..ChunkAt(Max(from[3], to[3]) + r) :
        chunkKey(cx, cz) \in DOMAIN chs

\* C28: at the start of every frame of the game loop the chunk that holds
\* the player and the eight chunks around it are loaded; so are the chunks
\* of every column the collision probes of the frame can fall in (within
\* half the player's width of the way from the old position to the new) and
\* of every column within REACH of the player, where a raycast can look.
C28_SurroundingsLoaded ==
    [][ hist'.last[1] = "frame" =>
          /\ NearLoaded(player.pos, chunks)
          /\ SweepLoaded(player.pos, player'.pos, PLAYER_WIDTH \div 2, chunks)
          /\ SweepLoaded(player.pos, player.pos, REACH * POS, chunks)
          /\ NearLoaded(player'.pos, chunks')
      ]_vars

\* the player left the spawn chunk, a first scan was made around a chunk of
\* column 0, whose farthest chunks are still loaded, and the player is now
\* in chunk (-1, -1), around which the last scan was made
C28_CrossedTwoBorders ==
    /\ hist.last[1] = "frame"
    /\ lastPC = <<-1, -1>>
    /\ ChunkAt(player.pos[1]) = -1
    /\ ChunkAt(player.pos[3]) = -1
    /\ chunkKey(RENDER_DISTANCE, -1) \in DOMAIN chunks
    /\ chunkKey(-1 - RENDER_DISTANCE, -1) \in DOMAIN chunks

---------------------------------------------------------------------------
(* Standing on the block: the one-block world, the player at rest on top   *)
(* of the stone with no key held, and frames of player update.             *)

\* frame times in milliseconds, from 0 to the cap of main.js
RestDts == {0, 1, 16, 25, 50}

\* where the feet centre rests, in millionths along x and z of the block:
\* the middle, over each edge, and with only one side of the box over the
\* block
RestOffsets == {-150000, 0, 500000, 1000000, 1150000}

InitRest ==
    /\ chunks = OneBlockWorld(DropBlock, STONE).chunks
    /\ scene = {}
    /\ lastPC = <<>>
    /\ \E ox \in RestOffsets, oz \in RestOffsets :
          player = [NewPlayer EXCEPT
                      !.pos = <<DropBlock[1] * POS + ox,
                                (DropBlock[2] + 1) * POS,
                                DropBlock[3] * POS + oz>>,
                      !.onGround = TRUE]
    /\ camera = NewCamera
    /\ noise = Idle
    /\ probe = Idle
    /\ hist = HistInit

NextRest == \E dt \in RestDts : Tick(dt)

SpecRest == InitRest /\ [][NextRest]_vars

\* the player stands on the block: feet at its top, a corner of the box over
\* it, grounded, no velocity, no key held
AtRest(P) ==
    /\ P.pos[2] = (DropBlock[2] + 1) * POS
    /\ \E sx \in {-1, 1}, sz \in {-1, 1} :
          /\ FloorBlock(P.pos[1] + sx * (PLAYER_WIDTH \div 2)) = DropBlock[1]
          /\ FloorBlock(P.pos[3] + sz * (PLAYER_WIDTH \div 2)) = DropBlock[3]
    /\ P.onGround
    /\ P.vel = <<0, 0, 0>>
    /\ P.keys = {}

====
